---- MODULE Spec2Model ----
(***************************************************************************)
(* Model of rune-alloc's ordered map entry API (btree/map/entry.rs) on top *)
(* of the B-tree node layer.  A node is a record                           *)
(*     [keys, vals, edges]                                                 *)
(* whose edges are empty for a leaf and hold Len(keys)+1 children for an   *)
(* internal node.  An Option<T> is a sequence of length 0 (None) or 1      *)
(* (Some).  Sequence positions are 1-based: edge i of a node lies to the   *)
(* left of key i.                                                           *)
(***************************************************************************)
EXTENDS Integers, Sequences, FiniteSets, TLC

\* ------------------------------------------------------------------ bounds

\* The branching factor B of the node layer (CAPACITY = 2B - 1, MIN_LEN =
\* B - 1).  The model takes the smallest one that keeps MIN_LEN positive, so
\* that four keys split the root and three merge it again.
Order == 2
\* Keys are 1..MaxKey.
MaxKey == 4
\* A call declines at most its MaxFailAt-th allocator request.
MaxFailAt == 2
\* The allocator declines at most MaxDeclined requests in a run.
MaxDeclined == 1

Keys == 1..MaxKey
\* The values stored in the map.  The map never inspects a value; a call
\* increments one only when the result is again among these.
Values == {1, 2}
\* 0: the allocator grants every request of the call; n > 0: it declines
\* the n-th request of the call.
FailAts == 0..MaxFailAt

\* The keys and values of the entry scenarios of the documentation.
ScenKeys == {1, 2}
ScenValues == {1, 2, 5, 42, 43, 99}

CAPACITY == 2 * Order - 1
MIN_LEN == Order - 1

None == <<>>
Some(x) == <<x>>
Unwrap(o) == o[1]

\* --------------------------------------------------------------- sequences

InsertSeq(s, i, x) == SubSeq(s, 1, i - 1) \o <<x>> \o SubSeq(s, i, Len(s))
RemoveSeq(s, i) == SubSeq(s, 1, i - 1) \o SubSeq(s, i + 1, Len(s))
SeqRange(s) == {s[i] : i \in 1..Len(s)}

\* -------------------------------------------------------------- node layer

new_leaf == [keys |-> <<>>, vals |-> <<>>, edges |-> <<>>]
IsLeaf(n) == n.edges = <<>>
NodeLen(n) == Len(n.keys)

\* The n-th allocator request of a call is granted unless it is the one the
\* allocator declines.
alloc_granted(n, failAt) == n # failAt

\* search_node: the first position whose key is not below `key`.
RECURSIVE search_node(_, _, _)
search_node(n, key, i) ==
    IF i > NodeLen(n) THEN [found |-> FALSE, idx |-> i]
    ELSE IF n.keys[i] = key THEN [found |-> TRUE, idx |-> i]
    ELSE IF n.keys[i] > key THEN [found |-> FALSE, idx |-> i]
    ELSE search_node(n, key, i + 1)

\* search_tree: Found(KV handle) or GoDown(leaf Edge handle).  A handle is
\* the path of edge indices from the root plus a position in the node.
RECURSIVE search_tree(_, _, _)
search_tree(n, key, path) ==
    LET r == search_node(n, key, 1) IN
    IF r.found THEN [found |-> TRUE, path |-> path, idx |-> r.idx]
    ELSE IF IsLeaf(n) THEN [found |-> FALSE, path |-> path, idx |-> r.idx]
    ELSE search_tree(n.edges[r.idx], key, Append(path, r.idx))

RECURSIVE node_at(_, _)
node_at(n, path) ==
    IF path = <<>> THEN n ELSE node_at(n.edges[Head(path)], Tail(path))

RECURSIVE height(_)
height(n) == IF IsLeaf(n) THEN 0 ELSE 1 + height(n.edges[1])

\* In-order traversal: the (key, value) pairs in tree order.
RECURSIVE kv_seq(_)
RECURSIVE kv_seq_from(_, _)
kv_seq(n) == kv_seq_from(n, 1)
kv_seq_from(n, i) ==
    IF IsLeaf(n)
    THEN [j \in 1..NodeLen(n) |-> <<n.keys[j], n.vals[j]>>]
    ELSE IF i > NodeLen(n) THEN kv_seq(n.edges[i])
    ELSE kv_seq(n.edges[i]) \o <<<<n.keys[i], n.vals[i]>>>> \o kv_seq_from(n, i + 1)

\* ------------------------------------------------- node layer: insertion

\* splitpoint: where to split a full node given the edge the insertion goes
\* to; the result names the middle KV and the half and edge of the insertion.
splitpoint(edge_idx) ==
    IF edge_idx < Order THEN [middle |-> Order - 1, left |-> TRUE, idx |-> edge_idx]
    ELSE IF edge_idx = Order THEN [middle |-> Order, left |-> TRUE, idx |-> edge_idx]
    ELSE IF edge_idx = Order + 1 THEN [middle |-> Order, left |-> FALSE, idx |-> 1]
    ELSE [middle |-> Order + 1, left |-> FALSE, idx |-> edge_idx - (Order + 1)]

\* split: the node keeps what lies left of the middle KV, a newly allocated
\* sibling takes what lies right of it.
split(n, middle) ==
    [left  |-> [keys  |-> SubSeq(n.keys, 1, middle - 1),
                vals  |-> SubSeq(n.vals, 1, middle - 1),
                edges |-> IF IsLeaf(n) THEN <<>> ELSE SubSeq(n.edges, 1, middle)],
     kv    |-> <<n.keys[middle], n.vals[middle]>>,
     right |-> [keys  |-> SubSeq(n.keys, middle + 1, NodeLen(n)),
                vals  |-> SubSeq(n.vals, middle + 1, NodeLen(n)),
                edges |-> IF IsLeaf(n) THEN <<>>
                          ELSE SubSeq(n.edges, middle + 1, NodeLen(n) + 1)]]

\* insert_fit into a node with room; `edge` is None for a leaf, else the
\* child that goes to the right of the new KV.
insert_fit(n, idx, k, v, edge) ==
    [keys  |-> InsertSeq(n.keys, idx, k),
     vals  |-> InsertSeq(n.vals, idx, v),
     edges |-> IF edge = None THEN n.edges ELSE InsertSeq(n.edges, idx + 1, Unwrap(edge))]

\* The rest of Handle<_, Edge>::insert once the sibling was granted: the
\* node is split at the splitpoint `sp` (s is the split result) and the new
\* KV goes to the left or to the right half.
split_insert(s, sp, k, v, edge, allocs) ==
    [status |-> "split",
     node   |-> IF sp.left THEN insert_fit(s.left, sp.idx, k, v, edge) ELSE s.left,
     kv     |-> s.kv,
     right  |-> Some(IF sp.left THEN s.right ELSE insert_fit(s.right, sp.idx, k, v, edge)),
     allocs |-> allocs]

\* Handle<_, Edge>::insert on a leaf (edge = None) or an internal node:
\* fits, or asks the allocator for a sibling and splits.  `allocs` counts
\* the allocator requests the call has made so far.  The node is mutated
\* only after its sibling was granted.
edge_insert(n, idx, k, v, edge, allocs, failAt) ==
    IF NodeLen(n) < CAPACITY
    THEN [status |-> "fit", node |-> insert_fit(n, idx, k, v, edge),
          kv |-> <<>>, right |-> None, allocs |-> allocs]
    ELSE IF ~alloc_granted(allocs + 1, failAt)
    THEN [status |-> "err", node |-> n, kv |-> <<>>, right |-> None,
          allocs |-> allocs + 1]
    ELSE split_insert(split(n, splitpoint(idx).middle), splitpoint(idx),
                      k, v, edge, allocs + 1)

\* One step up in insert_recursing: r is the result of the insertion into
\* child ci of n.  A split of the child, already carried out on the child, is
\* handed to n as a pending insertion (split.left.ascend(), parent.insert).
insert_up(n, ci, r, failAt) ==
    IF r.status = "split"
    THEN edge_insert([n EXCEPT !.edges[ci] = r.node], ci, r.kv[1], r.kv[2],
                     r.right, r.allocs, failAt)
    ELSE [r EXCEPT !.node = [n EXCEPT !.edges[ci] = r.node]]

\* insert_recursing below the node n: the leaf on the path is inserted into
\* first, then the nodes above it take the pending insertions.
RECURSIVE insert_rec(_, _, _, _, _, _)
insert_rec(n, path, idx, k, v, failAt) ==
    IF path = <<>> THEN edge_insert(n, idx, k, v, None, 0, failAt)
    ELSE insert_up(n, Head(path),
                   insert_rec(n.edges[Head(path)], Tail(path), idx, k, v, failAt),
                   failAt)

\* insert_recursing from a leaf edge handle.  Status "split" means the split
\* reached the root: `node` is the old root (SplitResult.left), and the
\* caller's split_root continuation is owed exactly one invocation with
\* (left, kv, right).
insert_recursing(root_node, handle, k, v, failAt) ==
    insert_rec(root_node, handle.path, handle.idx, k, v, failAt)

\* push_internal_level: a new internal root whose only edge is the old root.
push_internal_level(root_node) ==
    [keys |-> <<>>, vals |-> <<>>, edges |-> <<root_node>>]

\* NodeRef<_, Internal>::push: append a KV and the edge to its right.
internal_push(n, k, v, edge) ==
    [keys |-> Append(n.keys, k), vals |-> Append(n.vals, v),
     edges |-> Append(n.edges, edge)]

\* NodeRef<_, Leaf>::push.
leaf_push(n, k, v) ==
    [keys |-> Append(n.keys, k), vals |-> Append(n.vals, v), edges |-> <<>>]

\* pop_internal_level: the root's first child becomes the root.
pop_internal_level(root_node) == root_node.edges[1]

\* --------------------------------------------------- node layer: removal

\* can_merge of the children left and right of parent KV i.
can_merge(p, i) == NodeLen(p.edges[i]) + 1 + NodeLen(p.edges[i + 1]) <= CAPACITY

\* merge: the left child absorbs parent KV i and the right child, which is
\* released; the parent loses the KV and the edge to the right child.
do_merge(p, i) ==
    LET l == p.edges[i]
        r == p.edges[i + 1]
        m == [keys  |-> l.keys \o <<p.keys[i]>> \o r.keys,
              vals  |-> l.vals \o <<p.vals[i]>> \o r.vals,
              edges |-> l.edges \o r.edges]
    IN [keys  |-> RemoveSeq(p.keys, i),
        vals  |-> RemoveSeq(p.vals, i),
        edges |-> [RemoveSeq(p.edges, i + 1) EXCEPT ![i] = m]]

\* bulk_steal_left: `count` KVs move from the left child through parent KV i
\* into the right child.
bulk_steal_left(p, i, count) ==
    LET l  == p.edges[i]
        r  == p.edges[i + 1]
        nl == NodeLen(l) - count
        l2 == [keys  |-> SubSeq(l.keys, 1, nl),
               vals  |-> SubSeq(l.vals, 1, nl),
               edges |-> IF IsLeaf(l) THEN <<>> ELSE SubSeq(l.edges, 1, nl + 1)]
        r2 == [keys  |-> SubSeq(l.keys, nl + 2, NodeLen(l)) \o <<p.keys[i]>> \o r.keys,
               vals  |-> SubSeq(l.vals, nl + 2, NodeLen(l)) \o <<p.vals[i]>> \o r.vals,
               edges |-> IF IsLeaf(l) THEN <<>>
                         ELSE SubSeq(l.edges, nl + 2, NodeLen(l) + 1) \o r.edges]
    IN [keys  |-> [p.keys EXCEPT ![i] = l.keys[nl + 1]],
        vals  |-> [p.vals EXCEPT ![i] = l.vals[nl + 1]],
        edges |-> [p.edges EXCEPT ![i] = l2, ![i + 1] = r2]]

\* bulk_steal_right: `count` KVs move from the right child through parent KV
\* i into the left child.
bulk_steal_right(p, i, count) ==
    LET l  == p.edges[i]
        r  == p.edges[i + 1]
        l2 == [keys  |-> l.keys \o <<p.keys[i]>> \o SubSeq(r.keys, 1, count - 1),
               vals  |-> l.vals \o <<p.vals[i]>> \o SubSeq(r.vals, 1, count - 1),
               edges |-> IF IsLeaf(l) THEN <<>> ELSE l.edges \o SubSeq(r.edges, 1, count)]
        r2 == [keys  |-> SubSeq(r.keys, count + 1, NodeLen(r)),
               vals  |-> SubSeq(r.vals, count + 1, NodeLen(r)),
               edges |-> IF IsLeaf(r) THEN <<>>
                         ELSE SubSeq(r.edges, count + 1, NodeLen(r) + 1)]
    IN [keys  |-> [p.keys EXCEPT ![i] = r.keys[count]],
        vals  |-> [p.vals EXCEPT ![i] = r.vals[count]],
        edges |-> [p.edges EXCEPT ![i] = l2, ![i + 1] = r2]]

\* choose_parent_kv for child ci of p, then merge when the two children fit
\* in one node, else steal `count` KVs from the sibling.  The left parent KV
\* is preferred.
fix_child(p, ci, count) ==
    IF ci > 1
    THEN IF can_merge(p, ci - 1)
         THEN [node |-> do_merge(p, ci - 1), merged |-> TRUE]
         ELSE [node |-> bulk_steal_left(p, ci - 1, count), merged |-> FALSE]
    ELSE IF can_merge(p, ci)
         THEN [node |-> do_merge(p, ci), merged |-> TRUE]
         ELSE [node |-> bulk_steal_right(p, ci, count), merged |-> FALSE]

\* One step up in remove_leaf_kv: r is the result below child ci of n, and
\* `leaf` tells that the child is the leaf the KV was taken from.  An
\* underfull leaf is fixed through n by merging or by stealing one KV, and
\* fix_node_and_affected_ancestors starts at n; an underfull internal child
\* that the fix has arrived at is fixed through n, and the fix goes on to n
\* only after a merge.  `cont` tells that the fix has arrived at the node.
remove_up(n, ci, r, leaf) ==
    IF leaf /\ NodeLen(r.node) < MIN_LEN
    THEN [node |-> fix_child([n EXCEPT !.edges[ci] = r.node], ci, 1).node,
          cont |-> TRUE]
    ELSE IF ~leaf /\ r.cont /\ NodeLen(r.node) < MIN_LEN
    THEN [node |-> fix_child([n EXCEPT !.edges[ci] = r.node], ci,
                             MIN_LEN - NodeLen(r.node)).node,
          cont |-> fix_child([n EXCEPT !.edges[ci] = r.node], ci,
                             MIN_LEN - NodeLen(r.node)).merged]
    ELSE [node |-> [n EXCEPT !.edges[ci] = r.node], cont |-> FALSE]

RECURSIVE remove_rec(_, _, _)
remove_rec(n, path, idx) ==
    IF path = <<>>
    THEN [node |-> [n EXCEPT !.keys = RemoveSeq(n.keys, idx),
                             !.vals = RemoveSeq(n.vals, idx)],
          cont |-> FALSE]
    ELSE remove_up(n, Head(path), remove_rec(n.edges[Head(path)], Tail(path), idx),
                   Tail(path) = <<>>)

\* The end of the fix at the root: handle_emptied_internal_root is called
\* when the fix arrives at a root without KVs.
remove_at_root(r) == [node |-> r.node, emptied |-> r.cont /\ NodeLen(r.node) = 0]

\* remove_leaf_kv from the root down: the tree after the removal and the
\* rebalancing, and whether handle_emptied_internal_root was called.
remove_leaf_kv(root_node, path, idx) == remove_at_root(remove_rec(root_node, path, idx))

\* last_leaf_edge().left_kv(): the handle of the last KV in the subtree of
\* the node at `path`.
RECURSIVE last_leaf_kv(_, _)
last_leaf_kv(root_node, path) ==
    IF IsLeaf(node_at(root_node, path))
    THEN [path |-> path, idx |-> NodeLen(node_at(root_node, path))]
    ELSE last_leaf_kv(root_node, Append(path, NodeLen(node_at(root_node, path)) + 1))

\* The KV a handle points at.
kv_at(root_node, handle) ==
    <<node_at(root_node, handle.path).keys[handle.idx],
      node_at(root_node, handle.path).vals[handle.idx]>>

\* replace_kv at the place where the KV with key k ended up.
RECURSIVE replace_kv(_, _, _)
replace_kv(n, k, kv) ==
    IF search_node(n, k, 1).found
    THEN [n EXCEPT !.keys[search_node(n, k, 1).idx] = kv[1],
                   !.vals[search_node(n, k, 1).idx] = kv[2]]
    ELSE [n EXCEPT !.edges[search_node(n, k, 1).idx] =
                       replace_kv(n.edges[search_node(n, k, 1).idx], k, kv)]

\* remove_internal_kv: the predecessor left_kv was removed from its leaf
\* (result r) and takes the place of the KV that is to go.
remove_internal_kv(old_kv, left_kv, r) ==
    [old_kv |-> old_kv, node |-> replace_kv(r.node, old_kv[1], left_kv),
     emptied |-> r.emptied]

\* remove_kv_tracking of a KV handle: a leaf KV is removed directly; an
\* internal KV is replaced by its predecessor, which is removed from its
\* leaf.  Yields the removed pair, the tree, and whether the
\* handle_emptied_internal_root continuation was called.
remove_kv_tracking(root_node, handle) ==
    IF IsLeaf(node_at(root_node, handle.path))
    THEN [old_kv  |-> kv_at(root_node, handle),
          node    |-> remove_leaf_kv(root_node, handle.path, handle.idx).node,
          emptied |-> remove_leaf_kv(root_node, handle.path, handle.idx).emptied]
    ELSE remove_internal_kv(
             kv_at(root_node, handle),
             kv_at(root_node, last_leaf_kv(root_node, Append(handle.path, handle.idx))),
             remove_leaf_kv(root_node,
                            last_leaf_kv(root_node, Append(handle.path, handle.idx)).path,
                            last_leaf_kv(root_node, Append(handle.path, handle.idx)).idx))

\* -------------------------------------------------------- growable buffer
\* RawVec<T, A> of raw_vec.rs.  A buffer is a record [ptr, cap]; a pointer
\* is the number of the allocator request that returned it, and 0 is the
\* dangling sentinel.  An element type is a record [size, align].  A layout
\* is a record [size, align].  The context cx of a call is a record
\*     [elem, narrow, answer, fresh]
\* of the element type T, whether usize::BITS < 64 holds in the build, the
\* answer of the allocator to the request of the call ("Err", "moved" or
\* "inplace"), and the pointer a granted request returns when the block is
\* not kept in place.

\* The width of the machine word the arithmetic is done in: the smallest
\* usize Rust has.
USIZE_BITS == 16
USIZE_MAX == 2^USIZE_BITS - 1
ISIZE_MAX == 2^(USIZE_BITS - 1) - 1

\* The element types: a zero-sized one, u8, u32, and one above 1 KiB.
ElemTypes ==
    {[size |-> 0, align |-> 1], [size |-> 1, align |-> 1],
     [size |-> 4, align |-> 4], [size |-> 1025, align |-> 1]}

\* The lengths, additional counts and capacities the calls are made with.
Words == {0, 1, 8, 9, ISIZE_MAX, USIZE_MAX}

\* The buffer receives at most MaxRequests allocator requests in a run.
MaxRequests == 3

Answers == {"Err", "moved", "inplace"}

wrapping_sub(a, b) == (a - b + USIZE_MAX + 1) % (USIZE_MAX + 1)
wrapping_mul(a, b) == (a * b) % (USIZE_MAX + 1)
\* An addition that wraps.
checked_add_mut(a, b) == Some((a + b) % (USIZE_MAX + 1))
checked_add(a, b) == IF a + b > USIZE_MAX THEN None ELSE Some(a + b)
cmp_max(a, b) == IF a >= b THEN a ELSE b

dangling == 0

IS_ZST(elem) == elem.size = 0

\* Layout::array::<T>(n): an error when the size in bytes, rounded up to the
\* alignment, overflows isize::MAX.
Layout_array(elem, n) ==
    IF elem.size # 0 /\ n > (ISIZE_MAX - (elem.align - 1)) \div elem.size
    THEN None
    ELSE Some([size |-> elem.size * n, align |-> elem.align])

MIN_NON_ZERO_CAP(elem) ==
    IF elem.size = 1 THEN 8 ELSE IF elem.size <= 1024 THEN 4 ELSE 1

new_in == [ptr |-> dangling, cap |-> 0]

alloc_guard(alloc_size, narrow) ==
    IF narrow /\ alloc_size > ISIZE_MAX THEN "CapacityOverflow" ELSE "Ok"

capacity(rv, elem) == IF IS_ZST(elem) THEN USIZE_MAX ELSE rv.cap

current_memory(rv, elem) ==
    IF IS_ZST(elem) \/ rv.cap = 0 THEN None
    ELSE Some([ptr    |-> rv.ptr,
               layout |-> [size |-> wrapping_mul(elem.size, rv.cap),
                           align |-> elem.align]])

\* A growth trigger that forgets the length in use.
needs_to_grow_mut(rv, elem, len, additional) == additional > capacity(rv, elem)

needs_to_grow(rv, elem, len, additional) ==
    additional > wrapping_sub(capacity(rv, elem), len)

set_ptr_and_cap(rv, ptr, cap) == [ptr |-> ptr, cap |-> cap]

\* What the allocator returns to a request: nothing when it declines, the
\* block's own address when it resizes in place, a new address otherwise.
alloc_answer(mem, cx) ==
    IF cx.answer = "Err" THEN None
    ELSE IF cx.answer = "inplace" /\ mem # None THEN Some(Unwrap(mem).ptr)
    ELSE Some(cx.fresh)

\* One request to the allocator: allocate(new), grow or shrink(ptr, old,
\* new), or deallocate(ptr, old), with what it returned.
alloc_call(op, mem, new_layout, ret) ==
    [op  |-> op,
     ptr |-> IF mem = None THEN dangling ELSE Unwrap(mem).ptr,
     old |-> IF mem = None THEN None ELSE Some(Unwrap(mem).layout),
     new |-> new_layout,
     ret |-> ret]

\* The result of a buffer operation: the buffer after it, "Ok" or the error,
\* the requests it made to the allocator, and whether it took the growth
\* path.
Outcome(rv, result, calls, grew) ==
    [rv |-> rv, result |-> result, calls |-> calls, grew |-> grew]

\* memory.map_err(|_| AllocError { layout: new_layout }.into())
finish_grow_memory(c) ==
    [result |-> IF c.ret = None THEN "AllocError" ELSE "Ok", ptr |-> c.ret,
     calls  |-> <<c>>]

\* finish_grow that asks for a new block whether the buffer holds one or
\* not.
finish_grow_mut(new_layout, mem, cx) ==
    IF new_layout = None
    THEN [result |-> "CapacityOverflow", ptr |-> None, calls |-> <<>>]
    ELSE IF alloc_guard(Unwrap(new_layout).size, cx.narrow) # "Ok"
    THEN [result |-> "CapacityOverflow", ptr |-> None, calls |-> <<>>]
    ELSE finish_grow_memory(
             alloc_call("allocate", None, new_layout, Some(cx.fresh)))

finish_grow(new_layout, mem, cx) ==
    IF new_layout = None
    THEN [result |-> "CapacityOverflow", ptr |-> None, calls |-> <<>>]
    ELSE IF alloc_guard(Unwrap(new_layout).size, cx.narrow) # "Ok"
    THEN [result |-> "CapacityOverflow", ptr |-> None, calls |-> <<>>]
    ELSE finish_grow_memory(
             alloc_call(IF mem # None THEN "grow" ELSE "allocate", mem, new_layout,
                        alloc_answer(mem, cx)))

\* A growth that records the new capacity before it knows the outcome.
grow_set_mut(rv, cap, f) ==
    Outcome(IF f.result = "Ok" THEN set_ptr_and_cap(rv, Unwrap(f.ptr), cap)
            ELSE [rv EXCEPT !.cap = cap],
            f.result, f.calls, TRUE)

\* let ptr = finish_grow(..)?; self.set_ptr_and_cap(ptr, cap); Ok(())
grow_set(rv, cap, f) ==
    Outcome(IF f.result = "Ok" THEN set_ptr_and_cap(rv, Unwrap(f.ptr), cap) ELSE rv,
            f.result, f.calls, TRUE)

\* A capacity without the doubling.
amortized_cap_mut(rv, elem, required_cap) ==
    cmp_max(MIN_NON_ZERO_CAP(elem), required_cap)

\* The capacity grow_amortized asks for.
amortized_cap(rv, elem, required_cap) ==
    cmp_max(MIN_NON_ZERO_CAP(elem), cmp_max(wrapping_mul(rv.cap, 2), required_cap))

grow_to(rv, cap, cx) ==
    grow_set(rv, cap, finish_grow(Layout_array(cx.elem, cap),
                                  current_memory(rv, cx.elem), cx))

grow_amortized(rv, len, additional, cx) ==
    IF IS_ZST(cx.elem) THEN Outcome(rv, "CapacityOverflow", <<>>, TRUE)
    ELSE IF checked_add(len, additional) = None
    THEN Outcome(rv, "CapacityOverflow", <<>>, TRUE)
    ELSE grow_to(rv, amortized_cap(rv, cx.elem, Unwrap(checked_add(len, additional))),
                 cx)

\* An exact growth that takes the amortized capacity.
grow_exact_mut(rv, len, additional, cx) == grow_amortized(rv, len, additional, cx)

grow_exact(rv, len, additional, cx) ==
    IF IS_ZST(cx.elem) THEN Outcome(rv, "CapacityOverflow", <<>>, TRUE)
    ELSE IF checked_add(len, additional) = None
    THEN Outcome(rv, "CapacityOverflow", <<>>, TRUE)
    ELSE grow_to(rv, Unwrap(checked_add(len, additional)), cx)

try_reserve(rv, len, additional, cx) ==
    IF needs_to_grow(rv, cx.elem, len, additional)
    THEN grow_amortized(rv, len, additional, cx)
    ELSE Outcome(rv, "Ok", <<>>, FALSE)

\* try_reserve_for_push that grows only if the capacity does not suffice.
try_reserve_for_push_mut(rv, len, cx) == try_reserve(rv, len, 1, cx)

try_reserve_for_push(rv, len, cx) == grow_amortized(rv, len, 1, cx)

try_reserve_exact(rv, len, additional, cx) ==
    IF needs_to_grow(rv, cx.elem, len, additional)
    THEN grow_exact(rv, len, additional, cx)
    ELSE Outcome(rv, "Ok", <<>>, FALSE)

\* A buffer that records one element more than it asked for.
allocate_in_mut(n, c) ==
    IF c.ret = None THEN Outcome(new_in, "AllocError", <<c>>, FALSE)
    ELSE Outcome([ptr |-> Unwrap(c.ret), cap |-> n + 1], "Ok", <<c>>, FALSE)

\* alloc.allocate(layout)? and the buffer built around the block.
allocate_in(n, c) ==
    IF c.ret = None THEN Outcome(new_in, "AllocError", <<c>>, FALSE)
    ELSE Outcome([ptr |-> Unwrap(c.ret), cap |-> n], "Ok", <<c>>, FALSE)

\* try_allocate_in that asks the allocator whatever the element size and
\* the capacity are.
try_allocate_in_mut(n, cx) ==
    IF Layout_array(cx.elem, n) = None
    THEN Outcome(new_in, "CapacityOverflow", <<>>, FALSE)
    ELSE allocate_in(n,
                     alloc_call("allocate", None, Layout_array(cx.elem, n),
                                alloc_answer(None, cx)))

\* try_allocate_in; on an error there is no buffer, which the model shows
\* as the empty one.
try_allocate_in(n, cx) ==
    IF IS_ZST(cx.elem) \/ n = 0 THEN Outcome(new_in, "Ok", <<>>, FALSE)
    ELSE IF Layout_array(cx.elem, n) = None
    THEN Outcome(new_in, "CapacityOverflow", <<>>, FALSE)
    ELSE IF alloc_guard(Unwrap(Layout_array(cx.elem, n)).size, cx.narrow) # "Ok"
    THEN Outcome(new_in, "CapacityOverflow", <<>>, FALSE)
    ELSE allocate_in(n,
                     alloc_call("allocate", None, Layout_array(cx.elem, n),
                                alloc_answer(None, cx)))

try_with_capacity_in(n, cx) == try_allocate_in(n, cx)

\* A shrink to 0 that gives the block back and keeps its address.
shrink_memory_mut(rv, cap, mem, c) ==
    IF cap = 0
    THEN Outcome([ptr |-> rv.ptr, cap |-> 0], "Ok",
                 <<alloc_call("deallocate", mem, None, None)>>, FALSE)
    ELSE IF c.ret = None THEN Outcome(rv, "AllocError", <<c>>, FALSE)
    ELSE Outcome(set_ptr_and_cap(rv, Unwrap(c.ret), cap), "Ok", <<c>>, FALSE)

\* The rest of shrink that records the new capacity although the allocator
\* declined the request.
shrink_declined_mut(rv, cap, mem, c) ==
    IF cap = 0
    THEN Outcome(new_in, "Ok", <<alloc_call("deallocate", mem, None, None)>>, FALSE)
    ELSE IF c.ret = None THEN Outcome([rv EXCEPT !.cap = cap], "AllocError", <<c>>, FALSE)
    ELSE Outcome(set_ptr_and_cap(rv, Unwrap(c.ret), cap), "Ok", <<c>>, FALSE)

\* The rest of shrink for a buffer that holds the block mem.
shrink_memory(rv, cap, mem, c) ==
    IF cap = 0
    THEN Outcome(new_in, "Ok", <<alloc_call("deallocate", mem, None, None)>>, FALSE)
    ELSE IF c.ret = None THEN Outcome(rv, "AllocError", <<c>>, FALSE)
    ELSE Outcome(set_ptr_and_cap(rv, Unwrap(c.ret), cap), "Ok", <<c>>, FALSE)

\* shrink without the assertion on the capacity.
shrink_mut(rv, cap, cx) ==
    IF current_memory(rv, cx.elem) = None THEN Outcome(rv, "Ok", <<>>, FALSE)
    ELSE shrink_memory(rv, cap, current_memory(rv, cx.elem),
             alloc_call("shrink", current_memory(rv, cx.elem),
                        Some([size  |-> wrapping_mul(cx.elem.size, cap),
                              align |-> Unwrap(current_memory(rv, cx.elem)).layout.align]),
                        alloc_answer(current_memory(rv, cx.elem), cx)))

\* shrink: a capacity above the current one fails the assertion, and the
\* call panics.
shrink(rv, cap, cx) ==
    IF cap > capacity(rv, cx.elem) THEN Outcome(rv, "Panic", <<>>, FALSE)
    ELSE IF current_memory(rv, cx.elem) = None THEN Outcome(rv, "Ok", <<>>, FALSE)
    ELSE shrink_memory(rv, cap, current_memory(rv, cx.elem),
             alloc_call("shrink", current_memory(rv, cx.elem),
                        Some([size  |-> wrapping_mul(cx.elem.size, cap),
                              align |-> Unwrap(current_memory(rv, cx.elem)).layout.align]),
                        alloc_answer(current_memory(rv, cx.elem), cx)))

try_shrink_to_fit(rv, cap, cx) == shrink(rv, cap, cx)

\* A drop that keeps the block.
drop_mut(rv, elem) == <<>>

\* Drop for RawVec: the block, if there is one, goes back to the allocator.
drop(rv, elem) ==
    IF current_memory(rv, elem) = None THEN <<>>
    ELSE <<alloc_call("deallocate", current_memory(rv, elem), None, None)>>

VARIABLES
    raw_vec,    \* the RawVec: [ptr, cap]
    elem,       \* the element type T of the buffer: [size, align]
    narrow,     \* usize::BITS < 64 in this build
    allocator,  \* [requests: how many it has received, live: its live blocks]
    rlast       \* the last call on the buffer: operation, inputs and outcome

bufVars == <<raw_vec, elem, narrow, allocator, rlast>>

\* The allocator's live blocks after the request c.
heap_call(live, c) ==
    IF c.op = "deallocate" THEN live \ {[ptr |-> c.ptr, layout |-> Unwrap(c.old)]}
    ELSE IF c.ret = None THEN live
    ELSE IF c.op = "allocate"
    THEN live \cup {[ptr |-> Unwrap(c.ret), layout |-> Unwrap(c.new)]}
    ELSE (live \ {[ptr |-> c.ptr, layout |-> Unwrap(c.old)]})
             \cup {[ptr |-> Unwrap(c.ret), layout |-> Unwrap(c.new)]}

\* An operation makes at most one request.
heap_after(live, calls) == IF calls = <<>> THEN live ELSE heap_call(live, calls[1])

BufCall(op, len, additional, r) ==
    [op |-> op, len |-> len, additional |-> additional, result |-> r.result,
     calls |-> r.calls, grew |-> r.grew]

\* A buffer made by new_in, of u8 elements, that no call is made on.
BufNew ==
    /\ raw_vec = new_in
    /\ allocator = [requests |-> 0, live |-> {}]
    /\ rlast = BufCall("new_in", 0, 0, Outcome(new_in, "Ok", <<>>, FALSE))

BufIdle ==
    /\ BufNew
    /\ elem = [size |-> 1, align |-> 1]
    /\ narrow = FALSE

\* ------------------------------------------------------------ ControlFlow

\* The payloads are Values; the comparison of two Values is made by
\* Value::partial_eq_with or Value::eq_with, outside this type, and may call
\* into the virtual machine: its answer is an input here.
MaxPayload == 3
Payloads == 1..MaxPayload

Continue(value) == [tag |-> "Continue", value |-> value]
Break(value) == [tag |-> "Break", value |-> value]
ControlFlows == {Continue(v) : v \in Payloads} \cup {Break(v) : v \in Payloads}

Ok(value) == [ok |-> TRUE, value |-> value]
VmError == [ok |-> FALSE, value |-> FALSE]
VmResults == {Ok(TRUE), Ok(FALSE), VmError}

\* The comparison `fn` of the Values a and b, which answers `ret`.
value_call(fn, a, b, caller, ret) ==
    [result |-> ret,
     calls  |-> <<[fn |-> fn, a |-> a, b |-> b, caller |-> caller, ret |-> ret]>>]

\* eq_with that compares the payloads whatever the variants are.
eq_with_mut(self, other, caller, answer) ==
    value_call("Value::eq_with", self.value, other.value, caller, answer)

partial_eq_with(self, other, caller, answer) ==
    IF self.tag = "Continue" /\ other.tag = "Continue"
    THEN value_call("Value::partial_eq_with", self.value, other.value, caller, answer)
    ELSE IF self.tag = "Break" /\ other.tag = "Break"
    THEN value_call("Value::partial_eq_with", self.value, other.value, caller, answer)
    ELSE [result |-> Ok(FALSE), calls |-> <<>>]

partial_eq(self, other, answer) ==
    partial_eq_with(self, other, "EnvProtocolCaller", answer)

eq_with(self, other, caller, answer) ==
    IF self.tag = "Continue" /\ other.tag = "Continue"
    THEN value_call("Value::eq_with", self.value, other.value, caller, answer)
    ELSE IF self.tag = "Break" /\ other.tag = "Break"
    THEN value_call("Value::eq_with", self.value, other.value, caller, answer)
    ELSE [result |-> Ok(FALSE), calls |-> <<>>]

eq(self, other, answer) ==
    eq_with(self, other, "EnvProtocolCaller", answer)

VARIABLES
    flow        \* the last comparison of two ControlFlows: operands and outcome

FlowCall(op, self, other, r) ==
    [op |-> op, self |-> self, other |-> other, result |-> r.result,
     calls |-> r.calls]

\* No comparison has been made.
FlowIdle ==
    flow = FlowCall("new", Continue(1), Continue(1),
                    [result |-> Ok(TRUE), calls |-> <<>>])

\* -------------------------------------------------------- item encoding
\* item/internal.rs: the tags that frame the components of an item.  The
\* output is a Vec<u8>, a sequence of bytes here.

CRATE == 0
\* STRING of the source
STRING_TAG == 1
ID == 2

TYPE_BITS == 2
TYPE_MASK == (2 ^ TYPE_BITS) - 1
TAG_BYTES == 2
MAX_DATA == 2 ^ (TAG_BYTES * 8 - TYPE_BITS)

U8_MAX == 255
U16_MAX == 65535

\* a | b and a & b on naturals
RECURSIVE bit_or(_, _)
bit_or(a, b) ==
    IF a = 0 THEN b
    ELSE IF b = 0 THEN a
    ELSE cmp_max(a % 2, b % 2) + 2 * bit_or(a \div 2, b \div 2)

RECURSIVE bit_and(_, _)
bit_and(a, b) ==
    IF a = 0 \/ b = 0 THEN 0
    ELSE (a % 2) * (b % 2) + 2 * bit_and(a \div 2, b \div 2)

shl(n, bits) == n * (2 ^ bits)
shr(n, bits) == n \div (2 ^ bits)

\* u16::try_from(n)
u16_try_from(n) == IF n <= U16_MAX THEN Some(n) ELSE None

\* u16::to_ne_bytes that writes the low byte first on every target.
to_ne_bytes_mut(n, endian) == <<n % 256, n \div 256>>

\* u16::to_ne_bytes and u16::from_ne_bytes: the byte order is the target's.
to_ne_bytes(n, endian) ==
    IF endian = "little" THEN <<n % 256, n \div 256>> ELSE <<n \div 256, n % 256>>

from_ne_bytes(bytes, endian) ==
    IF endian = "little" THEN bytes[1] + 256 * bytes[2] ELSE 256 * bytes[1] + bytes[2]

\* content.split_at(n); a panic if n is beyond the end.
split_at(content, n) ==
    IF n > Len(content) THEN "Panic"
    ELSE <<SubSeq(content, 1, n), SubSeq(content, n + 1, Len(content))>>

\* read_tag: a panic unless content is two bytes; else (Tag, n).
read_tag(content, endian) ==
    IF Len(content) # 2 THEN "Panic"
    ELSE <<bit_and(from_ne_bytes(content, endian), TYPE_MASK) % (U8_MAX + 1),
           shr(from_ne_bytes(content, endian), TYPE_BITS)>>

\* The outcome of a write: the output after it and Ok, the error or Panic.
Written(output, result) == [output |-> output, result |-> result]

\* Vec::try_extend_from_slice: the bytes are appended, or the allocator
\* declined the room for them and the output is as it was.
try_extend_from_slice(output, bytes, granted) ==
    IF granted THEN Written(output \o bytes, "Ok") ELSE Written(output, "AllocError")

\* write_tag without the test of n against MAX_DATA.
write_tag_mut(output, tag, n, granted, cx) ==
    IF u16_try_from(bit_or(shl(n, TYPE_BITS), tag)) = None THEN Written(output, "Panic")
    ELSE try_extend_from_slice(
             output,
             to_ne_bytes(Unwrap(u16_try_from(bit_or(shl(n, TYPE_BITS), tag))), cx.endian),
             granted)

\* write_tag.  The debug assertions panic in a build that has them.
write_tag(output, tag, n, granted, cx) ==
    IF cx.debug_assertions /\ (tag > TYPE_MASK \/ n >= MAX_DATA)
    THEN Written(output, "Panic")
    ELSE IF n >= MAX_DATA THEN Written(output, "CapacityOverflow")
    ELSE IF u16_try_from(bit_or(shl(n, TYPE_BITS), tag)) = None
    THEN Written(output, "Panic")
    ELSE try_extend_from_slice(
             output,
             to_ne_bytes(Unwrap(u16_try_from(bit_or(shl(n, TYPE_BITS), tag))), cx.endian),
             granted)

\* `?`: the next step runs on the output of a step that returned Ok.
write_body(head, s, failAt) ==
    IF head.result # "Ok" THEN head
    ELSE try_extend_from_slice(head.output, s, alloc_granted(2, failAt))

\* A write of a component that ends with the tag of an ID.
write_tail_mut(tag, s, body, failAt, cx) ==
    IF body.result # "Ok" THEN body
    ELSE write_tag(body.output, ID, Len(s), alloc_granted(3, failAt), cx)

write_tail(tag, s, body, failAt, cx) ==
    IF body.result # "Ok" THEN body
    ELSE write_tag(body.output, tag, Len(s), alloc_granted(3, failAt), cx)

\* write_tag(output, tag, s.len())?; output.try_extend_from_slice(s)?;
\* write_tag(output, tag, s.len())?; Ok(()).  The request failAt to the
\* allocator is declined.
write_component(tag, s, output, failAt, cx) ==
    write_tail(tag, s,
               write_body(write_tag(output, tag, Len(s), alloc_granted(1, failAt), cx),
                          s, failAt),
               failAt, cx)

write_crate(s, output, failAt, cx) == write_component(CRATE, s, output, failAt, cx)

write_str(s, output, failAt, cx) == write_component(STRING_TAG, s, output, failAt, cx)

\* The rest of read_string after the first split.
read_string_tail(buf, content) ==
    IF split_at(content, TAG_BYTES) = "Panic" THEN "Panic"
    ELSE <<buf, split_at(content, TAG_BYTES)[2], split_at(content, TAG_BYTES)[1]>>

\* read_string: (s, the content after the tail tag, the tail tag).
read_string(content, n) ==
    IF split_at(content, n) = "Panic" THEN "Panic"
    ELSE read_string_tail(split_at(content, n)[1], split_at(content, n)[2])

VARIABLES
    output,             \* the Vec<u8> that the item is written to
    endian,             \* the byte order of the target
    debug_assertions,   \* whether the build has debug assertions
    ilast               \* the last write: operation, inputs, output before it, result

itemVars == <<output, endian, debug_assertions, ilast>>

ItemCall(op, tag, n, s, before, result) ==
    [op |-> op, tag |-> tag, n |-> n, s |-> s, before |-> before, result |-> result]

\* An empty output that nothing is written to.
ItemNew ==
    /\ output = <<>>
    /\ ilast = ItemCall("new", 0, 0, <<>>, <<>>, "Ok")

ItemIdle ==
    /\ ItemNew
    /\ endian = "little"
    /\ debug_assertions = FALSE

\* ------------------------------------------------------------- map, entry

VARIABLES
    map,        \* the BTreeMap: [root : Option<node>, length]
    last,       \* the last call on the map: its operation, inputs and result
    declined,   \* the number of requests the allocator has declined so far
    defaults    \* the calls of the default function that the last call made

mapVars == <<map, last, declined, defaults>>

vars == <<map, last, declined, defaults, raw_vec, elem, narrow, allocator, rlast, flow,
          output, endian, debug_assertions, ilast>>

\* BTreeMap::new: no root, length 0.
new_map == [root |-> None, length |-> 0]

\* The entry for the search result r.
entry_of(key, r) ==
    [tag    |-> IF r.found THEN "Occupied" ELSE "Vacant",
     key    |-> key,
     handle |-> Some([path |-> r.path, idx |-> r.idx])]

\* BTreeMap::entry: Vacant without handle for a map without root; else the
\* search decides between Occupied (KV handle) and Vacant (the leaf edge the
\* search ended at).
entry(m, key) ==
    IF m.root = None THEN [tag |-> "Vacant", key |-> key, handle |-> None]
    ELSE entry_of(key, search_tree(Unwrap(m.root), key, <<>>))

\* OccupiedEntry::key: the key of the KV the handle points at.
occupied_key(m, e) == kv_at(Unwrap(m.root), Unwrap(e.handle))[1]

\* OccupiedEntry::get: the value of the KV the handle points at.
get(m, e) == kv_at(Unwrap(m.root), Unwrap(e.handle))[2]

\* A write through a reference to the value at a KV handle.
RECURSIVE set_val(_, _, _, _)
set_val(n, path, idx, v) ==
    IF path = <<>> THEN [n EXCEPT !.vals[idx] = v]
    ELSE [n EXCEPT !.edges[Head(path)] = set_val(n.edges[Head(path)], Tail(path), idx, v)]

\* A write through the reference that OccupiedEntry::get_mut returns.
get_mut_write(m, e, v) ==
    [m EXCEPT !.root = Some(set_val(Unwrap(m.root), Unwrap(e.handle).path,
                                    Unwrap(e.handle).idx, v))]

\* OccupiedEntry::into_mut: the reference to the value, read here.
into_mut(m, e) == get(m, e)

\* What the returned reference (val_ptr) reads once the call is over: the
\* value in the slot that holds the key, wherever the slot is in the tree.
deref_val(m, key) ==
    (CHOOSE kv \in SeqRange(kv_seq(Unwrap(m.root))) : kv[1] = key)[2]

\* The Ok result of try_insert on the map m2 it leaves.
try_insert_ok(m2, key, allocs) ==
    [map |-> m2, ok |-> TRUE, ret |-> <<deref_val(m2, key)>>, allocs |-> allocs]

\* try_insert_no_root that forgets to set the length.
try_insert_no_root_mut(m, e, value, failAt) ==
    IF ~alloc_granted(1, failAt)
    THEN [map |-> m, ok |-> FALSE, ret |-> <<>>, allocs |-> 1]
    ELSE try_insert_ok([root |-> Some(leaf_push(new_leaf, e.key, value)),
                        length |-> m.length], e.key, 1)

\* VacantEntry::try_insert, handle None: the first leaf is allocated, filled
\* and installed as the root, and the length is set to 1.
try_insert_no_root(m, e, value, failAt) ==
    IF ~alloc_granted(1, failAt)
    THEN [map |-> m, ok |-> FALSE, ret |-> <<>>, allocs |-> 1]
    ELSE try_insert_ok([root |-> Some(leaf_push(new_leaf, e.key, value)), length |-> 1],
                       e.key, 1)

\* split_root that hangs the two halves below the new root in the wrong order.
split_root_mut(ins, failAt) ==
    IF ~alloc_granted(ins.allocs + 1, failAt)
    THEN [ok |-> FALSE, node |-> ins.node, allocs |-> ins.allocs + 1]
    ELSE [ok     |-> TRUE,
          node   |-> internal_push(push_internal_level(Unwrap(ins.right)),
                                   ins.kv[1], ins.kv[2], ins.node),
          allocs |-> ins.allocs + 1]

\* The split_root closure that does not look at the answer to its request
\* and reports success whether the allocator granted it or not.
split_root_swallow(ins, failAt) ==
    [ok     |-> TRUE,
     node   |-> internal_push(push_internal_level(ins.node),
                              ins.kv[1], ins.kv[2], Unwrap(ins.right)),
     allocs |-> ins.allocs + 1]

\* The split_root closure that pushes a level twice: the old root ends one
\* level lower than its new sibling.
split_root_two_levels(ins, failAt) ==
    [ok     |-> TRUE,
     node   |-> internal_push(push_internal_level(push_internal_level(ins.node)),
                              ins.kv[1], ins.kv[2], Unwrap(ins.right)),
     allocs |-> ins.allocs + 1]

\* The split_root closure of VacantEntry::try_insert: the old root was split
\* already (ins.left is the root in the map); a new internal level is pushed
\* and takes the KV and the right sibling.
split_root(ins, failAt) ==
    IF ~alloc_granted(ins.allocs + 1, failAt)
    THEN [ok |-> FALSE, node |-> ins.node, allocs |-> ins.allocs + 1]
    ELSE [ok     |-> TRUE,
          node   |-> internal_push(push_internal_level(ins.node),
                                   ins.kv[1], ins.kv[2], Unwrap(ins.right)),
          allocs |-> ins.allocs + 1]

\* An insertion that forgets to count the new KV.
length_after_insert_mut(len) == len

\* map.length += 1 after a successful insertion below an existing root.
length_after_insert(len) == len + 1

\* The end of VacantEntry::try_insert, handle Some: `top` is what
\* insert_recursing made of the root.  An error leaves the length alone and
\* the nodes as the calls so far have made them.
try_insert_finish(m, e, top) ==
    IF top.ok
    THEN try_insert_ok([root |-> Some(top.node), length |-> length_after_insert(m.length)],
                       e.key, top.allocs)
    ELSE [map |-> [m EXCEPT !.root = Some(top.node)], ok |-> FALSE, ret |-> <<>>,
          allocs |-> top.allocs]

\* insert_recursing that does not call the split_root closure: the old root
\* stays the root when the split reached it.
try_insert_root_mut(ins, failAt) ==
    [ok |-> ins.status # "error", node |-> ins.node, allocs |-> ins.allocs]

\* insert_recursing with the split_root closure: the closure is called when
\* the split reached the root.
try_insert_root(ins, failAt) ==
    IF ins.status = "split" THEN split_root(ins, failAt)
    ELSE [ok |-> ins.status = "fit", node |-> ins.node, allocs |-> ins.allocs]

\* VacantEntry::try_insert, handle Some.
try_insert_at(m, e, value, failAt) ==
    try_insert_finish(m, e,
        try_insert_root(insert_recursing(Unwrap(m.root), Unwrap(e.handle), e.key,
                                         value, failAt),
                        failAt))

\* VacantEntry::try_insert.
try_insert(m, e, value, failAt) ==
    IF e.handle = None THEN try_insert_no_root(m, e, value, failAt)
    ELSE try_insert_at(m, e, value, failAt)

\* or_try_insert that overwrites the value of an Occupied entry.
or_try_insert_mut(m, e, default, failAt) ==
    IF e.tag = "Occupied"
    THEN [map |-> get_mut_write(m, e, default), ok |-> TRUE, ret |-> <<default>>,
          allocs |-> 0]
    ELSE try_insert(m, e, default, failAt)

\* Entry::or_try_insert.
or_try_insert(m, e, default, failAt) ==
    IF e.tag = "Occupied"
    THEN [map |-> m, ok |-> TRUE, ret |-> <<into_mut(m, e)>>, allocs |-> 0]
    ELSE try_insert(m, e, default, failAt)

\* The default functions handed to or_try_insert_with are the closures
\* `|| v`, one for each value v; a call of one is recorded with its
\* arguments and what it returned.
default_call(f, args, ret) == [fn |-> f, args |-> args, ret |-> ret]

\* The default functions handed to or_try_insert_with_key: "one" is
\* `|_| 1` and "parity" is `|k| k % 2 + 1`.
KeyDefaults == {"one", "parity"}
key_default(f, key) == IF f = "one" THEN 1 ELSE (key % 2) + 1

\* <V as Default>::default() of the value type.
Default_default == 1

\* The result r of a call, and the calls of the default function it made.
with_defaults(r, calls) ==
    [map |-> r.map, ok |-> r.ok, ret |-> r.ret, allocs |-> r.allocs,
     defaults |-> calls]

\* Entry::or_try_insert_with.
or_try_insert_with(m, e, default, failAt) ==
    IF e.tag = "Occupied"
    THEN with_defaults([map |-> m, ok |-> TRUE, ret |-> <<into_mut(m, e)>>,
                        allocs |-> 0], <<>>)
    ELSE with_defaults(try_insert(m, e, default, failAt),
                       <<default_call(default, <<>>, default)>>)

\* or_try_insert_with_key that computes the value before it looks at the
\* entry.
or_try_insert_with_key_mut(m, e, default, failAt) ==
    IF e.tag = "Occupied"
    THEN with_defaults([map |-> m, ok |-> TRUE, ret |-> <<into_mut(m, e)>>,
                        allocs |-> 0],
                       <<default_call(default, <<e.key>>, key_default(default, e.key))>>)
    ELSE with_defaults(try_insert(m, e, key_default(default, e.key), failAt),
                       <<default_call(default, <<e.key>>, key_default(default, e.key))>>)

\* Entry::or_try_insert_with_key: the default function gets entry.key().
or_try_insert_with_key(m, e, default, failAt) ==
    IF e.tag = "Occupied"
    THEN with_defaults([map |-> m, ok |-> TRUE, ret |-> <<into_mut(m, e)>>,
                        allocs |-> 0], <<>>)
    ELSE with_defaults(try_insert(m, e, key_default(default, e.key), failAt),
                       <<default_call(default, <<e.key>>, key_default(default, e.key))>>)

\* Entry::or_try_default.
or_try_default(m, e, failAt) ==
    IF e.tag = "Occupied"
    THEN with_defaults([map |-> m, ok |-> TRUE, ret |-> <<into_mut(m, e)>>,
                        allocs |-> 0], <<>>)
    ELSE with_defaults(try_insert(m, e, Default_default, failAt),
                       <<default_call("Default::default", <<>>, Default_default)>>)

\* and_modify that never calls the closure.
and_modify_mut(m, e, f) == m

\* Entry::and_modify with the closure f (a function on values): the map
\* after the call; the entry itself is returned as it was.
and_modify(m, e, f) ==
    IF e.tag = "Occupied" THEN get_mut_write(m, e, f[get(m, e)]) ELSE m

\* A removal that forgets to count the KV it took.
length_after_remove_mut(len) == len

\* map.length -= 1 after a removal.
length_after_remove(len) == len - 1

\* The end of remove_kv that leaves an emptied internal root in place.
remove_kv_finish_mut(m, r) ==
    [map |-> [root |-> Some(r.node), length |-> length_after_remove(m.length)],
     ret |-> r.old_kv]

\* The end of OccupiedEntry::remove_kv: r is the result of
\* remove_kv_tracking; the length is decremented and an emptied internal
\* root is popped.
remove_kv_finish(m, r) ==
    [map |-> [root   |-> Some(IF r.emptied THEN pop_internal_level(r.node) ELSE r.node),
              length |-> length_after_remove(m.length)],
     ret |-> r.old_kv]

\* OccupiedEntry::remove_kv.
remove_kv(m, e) ==
    remove_kv_finish(m, remove_kv_tracking(Unwrap(m.root), Unwrap(e.handle)))

\* remove_entry that reads the pair and leaves it in the map.
remove_entry_mut(m, e) == [map |-> m, ret |-> kv_at(Unwrap(m.root), Unwrap(e.handle))]

\* OccupiedEntry::remove_entry.
remove_entry(m, e) == remove_kv(m, e)

\* The second component of the removed pair.
second_of(r) == [map |-> r.map, ret |-> <<r.ret[2]>>]

\* OccupiedEntry::remove.
remove(m, e) == second_of(remove_kv(m, e))

\* OccupiedEntry::insert that hands back the value it was given.
occupied_insert_mut(m, e, value) ==
    [map |-> get_mut_write(m, e, value), ret |-> <<value>>]

\* OccupiedEntry::insert: mem::replace through get_mut.
occupied_insert(m, e, value) ==
    [map |-> get_mut_write(m, e, value), ret |-> <<get(m, e)>>]

\* -------------------------------------------------- dormant map reference
\* The steps an entry operation takes with the dormant map reference and
\* with the handles derived from it, in program order.  "awaken" and
\* "reborrow" reactivate the dormant reference; the other steps create or
\* end a handle.

\* try_insert, handle None: the map is awakened first.
try_insert_no_root_events == <<"awaken">>

\* A split_root closure that reborrows the map before it drops ins.left.
split_root_events_mut == <<"split_root", "reborrow", "drop ins.left">>

\* The split_root closure: it is handed ins.left, drops it, and reborrows
\* the map.
split_root_events == <<"split_root", "drop ins.left", "reborrow">>

\* try_insert, handle Some: insert_recursing consumes self.handle and calls
\* the closure on a root split; `?` returns on an error; else the new handle
\* is turned into the value pointer and the map is awakened.
try_insert_at_events(ins, top) ==
    <<"insert_recursing">>
        \o (IF ins.status = "split" THEN split_root_events ELSE <<>>)
        \o (IF top.ok THEN <<"new_handle", "into_val_mut", "awaken">> ELSE <<>>)

\* The events of an insertion whose insert_recursing returns ins.
try_insert_root_events(ins, failAt) ==
    try_insert_at_events(ins, try_insert_root(ins, failAt))

try_insert_events(m, e, value, failAt) ==
    IF e.handle = None THEN try_insert_no_root_events
    ELSE try_insert_root_events(
             insert_recursing(Unwrap(m.root), Unwrap(e.handle), e.key, value, failAt),
             failAt)

\* remove_kv: remove_kv_tracking consumes self.handle, then the map is
\* awakened.
remove_kv_events == <<"remove_kv_tracking", "awaken">>

\* By how many the step changes the number of live handles.
handle_delta(step) ==
    IF step \in {"split_root", "new_handle"} THEN 1
    ELSE IF step \in {"insert_recursing", "drop ins.left", "into_val_mut",
                      "remove_kv_tracking"} THEN -1
    ELSE 0

\* The number of live handles after the first i steps, from `initial`.
RECURSIVE live_handles(_, _, _)
live_handles(events, i, initial) ==
    IF i = 0 THEN initial
    ELSE live_handles(events, i - 1, initial) + handle_delta(events[i])

\* ------------------------------------------------------------------ calls

\* The closure |v| *v += 1.
Inc == [v \in Values \cup ScenValues |-> v + 1]

Call(op, k, v, occupied, ok, ret, allocs) ==
    [op |-> op, key |-> k, val |-> v, occupied |-> occupied, ok |-> ok,
     ret |-> ret, allocs |-> allocs]

Init ==
    /\ map = new_map
    /\ last = Call("new", 0, 0, FALSE, TRUE, <<>>, 0)
    /\ declined = 0
    /\ defaults = <<>>
    /\ BufIdle
    /\ FlowIdle
    /\ ItemIdle

\* The requests the allocator may decline next: none once it has declined
\* MaxDeclined of them.
MayFailAt == IF declined < MaxDeclined THEN FailAts ELSE {0}

\* The call `op` with key k and value v found the entry e and ended with r.
Return(op, k, v, e, r) ==
    /\ map' = r.map
    /\ last' = Call(op, k, v, e.tag = "Occupied", r.ok, r.ret, r.allocs)
    /\ declined' = IF r.ok THEN declined ELSE declined + 1
    /\ defaults' = <<>>
    /\ UNCHANGED <<bufVars, flow, itemVars>>

\* A result of a call that cannot fail and does not allocate.
Infallible(r) == [map |-> r.map, ok |-> TRUE, ret |-> r.ret, allocs |-> 0]

\* map.entry(k).or_try_insert(v)
OrTryInsert(K, V) ==
    \E k \in K, v \in V, failAt \in MayFailAt :
        Return("or_try_insert", k, v, entry(map, k),
               or_try_insert(map, entry(map, k), v, failAt))

\* The increment stays within the values V.
IncWithin(e, V) == e.tag = "Occupied" => Inc[get(map, e)] \in V

\* map.entry(k).and_modify(|v| *v += 1).or_try_insert(v)
AndModifyOrTryInsert(K, V) ==
    \E k \in K, v \in V, failAt \in MayFailAt :
        /\ IncWithin(entry(map, k), V)
        /\ Return("and_modify_or_try_insert", k, v, entry(map, k),
                  or_try_insert(and_modify(map, entry(map, k), Inc), entry(map, k),
                                v, failAt))

\* if let Occupied(o) = map.entry(k) { o.remove() }
if_occupied_remove(m, e) ==
    IF e.tag = "Occupied" THEN remove(m, e) ELSE [map |-> m, ret |-> <<>>]

EntryRemove(K) ==
    \E k \in K :
        Return("remove", k, 0, entry(map, k),
               Infallible(if_occupied_remove(map, entry(map, k))))

\* BTreeMap::remove_entry(key): the search finds the KV, and
\* OccupiedEntry::remove_entry removes it; None for a key that is not stored.
map_remove_entry(m, e) ==
    IF e.tag = "Occupied" THEN remove_entry(m, e) ELSE [map |-> m, ret |-> <<>>]

RemoveEntry(K) ==
    \E k \in K :
        Return("remove_entry", k, 0, entry(map, k),
               Infallible(map_remove_entry(map, entry(map, k))))

\* if let Occupied(mut o) = map.entry(k) { o.insert(v) }
if_occupied_insert(m, e, v) ==
    IF e.tag = "Occupied" THEN occupied_insert(m, e, v) ELSE [map |-> m, ret |-> <<>>]

EntryInsert(K, V) ==
    \E k \in K, v \in V :
        Return("insert", k, v, entry(map, k),
               Infallible(if_occupied_insert(map, entry(map, k), v)))

Next ==
    \/ OrTryInsert(Keys, Values)
    \/ AndModifyOrTryInsert(Keys, Values)
    \/ EntryRemove(Keys)
    \/ RemoveEntry(Keys)
    \/ EntryInsert(Keys, Values)

Spec == Init /\ [][Next]_vars

\* The same calls on the keys and values of the documented scenarios.
ScenarioNext ==
    \/ OrTryInsert(ScenKeys, ScenValues)
    \/ AndModifyOrTryInsert(ScenKeys, ScenValues)
    \/ EntryRemove(ScenKeys)
    \/ RemoveEntry(ScenKeys)
    \/ EntryInsert(ScenKeys, ScenValues)

SpecScenario == Init /\ [][ScenarioNext]_vars

\* OccupiedError: the entry that was already occupied and the value that
\* was not inserted.
OccupiedError(e, value) == [entry |-> e, value |-> value]

\* An insert-if-absent that overwrites the stored value on a collision.
btreemap_try_insert_mut(m, e, value, failAt) ==
    IF e.tag = "Occupied"
    THEN [map |-> get_mut_write(m, e, value), ok |-> FALSE,
          ret |-> <<OccupiedError(e, value)>>, allocs |-> 0]
    ELSE try_insert(m, e, value, failAt)

\* The insert-if-absent of the map: on a collision the error carries the
\* Occupied entry and the value; a Vacant entry takes the value.
btreemap_try_insert(m, e, value, failAt) ==
    IF e.tag = "Occupied"
    THEN [map |-> m, ok |-> FALSE, ret |-> <<OccupiedError(e, value)>>, allocs |-> 0]
    ELSE try_insert(m, e, value, failAt)

\* The end of an insert-if-absent: a collision is an error that no
\* allocator request was declined for.
ReturnTryInsert(k, v, e, r) ==
    /\ map' = r.map
    /\ last' = Call("try_insert", k, v, e.tag = "Occupied", r.ok, r.ret, r.allocs)
    /\ declined' = IF r.ok \/ e.tag = "Occupied" THEN declined ELSE declined + 1
    /\ defaults' = <<>>
    /\ UNCHANGED <<bufVars, flow, itemVars>>

\* map.try_insert(k, v), the insert-if-absent
TryInsert(K, V) ==
    \E k \in K, v \in V, failAt \in MayFailAt :
        ReturnTryInsert(k, v, entry(map, k),
                        btreemap_try_insert(map, entry(map, k), v, failAt))

\* Insert-if-absent calls and removals.
CollisionNext ==
    \/ TryInsert(Keys, Values)
    \/ RemoveEntry(Keys)

SpecCollision == Init /\ [][CollisionNext]_vars

\* ------------------------------------------------------------ taller trees

\* Insertions that the allocator grants and removals, on enough keys for a
\* tree of three levels.
MaxTreeKey == 10
TreeKeys == 1..MaxTreeKey

\* map.entry(k).or_try_insert(1) with every request granted
TreeInsert ==
    \E k \in TreeKeys :
        Return("or_try_insert", k, 1, entry(map, k),
               or_try_insert(map, entry(map, k), 1, 0))

TreeNext ==
    \/ TreeInsert
    \/ EntryRemove(TreeKeys)

SpecTree == Init /\ [][TreeNext]_vars

\* --------------------------------------------------- default functions

\* The return of a call that takes a default function.
ReturnWith(op, k, v, e, r) ==
    /\ map' = r.map
    /\ last' = Call(op, k, v, e.tag = "Occupied", r.ok, r.ret, r.allocs)
    /\ declined' = IF r.ok THEN declined ELSE declined + 1
    /\ defaults' = r.defaults
    /\ UNCHANGED <<bufVars, flow, itemVars>>

\* map.entry(k).or_try_insert_with(|| v)
OrTryInsertWith ==
    \E k \in Keys, v \in Values, failAt \in MayFailAt :
        ReturnWith("or_try_insert_with", k, v, entry(map, k),
                   or_try_insert_with(map, entry(map, k), v, failAt))

\* map.entry(k).or_try_insert_with_key(f)
OrTryInsertWithKey ==
    \E k \in Keys, f \in KeyDefaults, failAt \in MayFailAt :
        ReturnWith("or_try_insert_with_key", k, key_default(f, k), entry(map, k),
                   or_try_insert_with_key(map, entry(map, k), f, failAt))

\* map.entry(k).or_try_default()
OrTryDefault ==
    \E k \in Keys, failAt \in MayFailAt :
        ReturnWith("or_try_default", k, Default_default, entry(map, k),
                   or_try_default(map, entry(map, k), failAt))

DefaultNext ==
    \/ OrTryInsertWith
    \/ OrTryInsertWithKey
    \/ OrTryDefault
    \/ EntryRemove(Keys)

SpecDefault == Init /\ [][DefaultNext]_vars

\* ----------------------------------------------------------- buffer calls

\* The context of a buffer call that the allocator answers with `answer`.
Cx(answer) ==
    [elem |-> elem, narrow |-> narrow, answer |-> answer,
     fresh |-> allocator.requests + 1]

InitRawVec ==
    /\ map = new_map
    /\ last = Call("new", 0, 0, FALSE, TRUE, <<>>, 0)
    /\ declined = 0
    /\ defaults = <<>>
    /\ BufNew
    /\ elem \in ElemTypes
    /\ narrow \in BOOLEAN
    /\ FlowIdle
    /\ ItemIdle

\* The call `op` on the buffer ended with the outcome r.
BufReturn(op, len, additional, r) ==
    /\ allocator.requests < MaxRequests
    /\ raw_vec' = r.rv
    /\ rlast' = BufCall(op, len, additional, r)
    /\ allocator' = [requests |-> allocator.requests + Len(r.calls),
                     live     |-> heap_after(allocator.live, r.calls)]
    /\ UNCHANGED <<elem, narrow, mapVars, flow, itemVars>>

\* RawVec::try_with_capacity_in(n, alloc), in place of a buffer that holds
\* no block.
TryWithCapacityIn ==
    \E n \in Words, answer \in Answers :
        /\ raw_vec = new_in
        /\ BufReturn("try_with_capacity_in", 0, n, try_with_capacity_in(n, Cx(answer)))

TryReserve ==
    \E len \in Words, additional \in Words, answer \in Answers :
        BufReturn("try_reserve", len, additional,
                  try_reserve(raw_vec, len, additional, Cx(answer)))

TryReserveExact ==
    \E len \in Words, additional \in Words, answer \in Answers :
        BufReturn("try_reserve_exact", len, additional,
                  try_reserve_exact(raw_vec, len, additional, Cx(answer)))

TryReserveForPush ==
    \E len \in Words, answer \in Answers :
        BufReturn("try_reserve_for_push", len, 1,
                  try_reserve_for_push(raw_vec, len, Cx(answer)))

TryShrinkToFit ==
    \E cap \in Words, answer \in Answers :
        BufReturn("try_shrink_to_fit", 0, cap,
                  try_shrink_to_fit(raw_vec, cap, Cx(answer)))

\* The buffer is dropped, and new_in makes the next one.
Drop ==
    BufReturn("drop", 0, 0, Outcome(new_in, "Ok", drop(raw_vec, elem), FALSE))

RawVecNext ==
    \/ TryWithCapacityIn
    \/ TryReserve
    \/ TryReserveExact
    \/ TryReserveForPush
    \/ TryShrinkToFit
    \/ Drop

SpecRawVec == InitRawVec /\ [][RawVecNext]_vars

\* ------------------------------------------------------ ControlFlow calls

\* Two ControlFlows that no comparison has been made on.
InitControlFlow ==
    /\ map = new_map
    /\ last = Call("new", 0, 0, FALSE, TRUE, <<>>, 0)
    /\ declined = 0
    /\ defaults = <<>>
    /\ BufIdle
    /\ ItemIdle
    /\ \E self \in ControlFlows, other \in ControlFlows :
           flow = FlowCall("new", self, other, [result |-> Ok(TRUE), calls |-> <<>>])

FlowReturn(op, r) ==
    /\ flow' = FlowCall(op, flow.self, flow.other, r)
    /\ UNCHANGED <<mapVars, bufVars, itemVars>>

\* self.partial_eq(other)
PartialEq ==
    \E answer \in VmResults :
        FlowReturn("partial_eq", partial_eq(flow.self, flow.other, answer))

\* self.eq(other)
Eq ==
    \E answer \in VmResults :
        FlowReturn("eq", eq(flow.self, flow.other, answer))

ControlFlowNext ==
    \/ PartialEq
    \/ Eq

SpecControlFlow == InitControlFlow /\ [][ControlFlowNext]_vars

\* ------------------------------------------------------------ item writes

\* The tags, the sizes and the strings that are written: the three types
\* and the two tags next to TYPE_MASK, the sizes around a byte and around
\* MAX_DATA, and strings of up to MaxStrLen bytes and of a length around
\* MAX_DATA.  Writes are made while the output has fewer than MaxOutput
\* bytes.
MaxStrLen == 2
MaxOutput == 4
TagBytes == {CRATE, STRING_TAG, ID, TYPE_MASK, TYPE_MASK + 1}
Datas == {0, 1, U8_MAX, U8_MAX + 1, MAX_DATA - 1, MAX_DATA, MAX_DATA + 1}
Str(n) == [i \in 1..n |-> (96 + i) % (U8_MAX + 1)]
ShortStrings == {Str(n) : n \in 0..MaxStrLen}
LongStrings == {Str(MAX_DATA - 1), Str(MAX_DATA)}
\* The long strings are written to an empty output only.
Strings == IF output = <<>> THEN ShortStrings \cup LongStrings ELSE ShortStrings
ExtendFailAts == 0..3

\* The build that a call runs in.
Build == [endian |-> endian, debug_assertions |-> debug_assertions]

InitItem ==
    /\ map = new_map
    /\ last = Call("new", 0, 0, FALSE, TRUE, <<>>, 0)
    /\ declined = 0
    /\ defaults = <<>>
    /\ BufIdle
    /\ FlowIdle
    /\ ItemNew
    /\ endian \in {"little", "big"}
    /\ debug_assertions \in BOOLEAN

\* The write `op` ended with the outcome w.
ItemReturn(op, tag, n, s, w) ==
    /\ Len(output) < MaxOutput
    /\ output' = w.output
    /\ ilast' = ItemCall(op, tag, n, s, output, w.result)
    /\ UNCHANGED <<endian, debug_assertions, mapVars, bufVars, flow>>

WriteTag ==
    \E tag \in TagBytes, n \in Datas, granted \in BOOLEAN :
        ItemReturn("write_tag", tag, n, <<>>, write_tag(output, tag, n, granted, Build))

WriteCrate ==
    \E s \in Strings, failAt \in ExtendFailAts :
        ItemReturn("write_crate", CRATE, Len(s), s, write_crate(s, output, failAt, Build))

WriteStr ==
    \E s \in Strings, failAt \in ExtendFailAts :
        ItemReturn("write_str", STRING_TAG, Len(s), s,
                   write_str(s, output, failAt, Build))

ItemNext ==
    \/ WriteTag
    \/ WriteCrate
    \/ WriteStr

SpecItem == InitItem /\ [][ItemNext]_vars

\* ----------------------------------------------------------- observations

\* Iteration over the map: the (key, value) pairs in tree order.
iter(m) == IF m.root = None THEN <<>> ELSE kv_seq(Unwrap(m.root))

\* The keys that an iteration yields.
KeySeq(m) == [i \in 1..Len(iter(m)) |-> iter(m)[i][1]]
KeySet(m) == {iter(m)[i][1] : i \in 1..Len(iter(m))}

\* BTreeMap::get(key): Some(value) when the search finds the key.
get_key(m, key) ==
    IF entry(m, key).tag = "Occupied" THEN Some(get(m, entry(m, key))) ELSE None

StrictlyAscending(s) == \A i \in 1..(Len(s) - 1) : s[i] < s[i + 1]

TreeHeight(m) == IF m.root = None THEN 0 ELSE height(Unwrap(m.root))

\* A failed call is one the allocator declined a request of.
CallDeclined == declined' = declined + 1

\* ----------------------------------------------------------------- claims

\* C1: whichever allocator request of an insert is declined, the call returns
\* an error and the map's length and its key/value pairs are what they were
\* before the call.
C1_DeclinedInsertLeavesMapUntouched ==
    [][CallDeclined =>
         /\ ~last'.ok
         /\ map'.length = map.length
         /\ iter(map') = iter(map)]_vars

\* C2: in every reachable state the length is 0 if and only if the root is
\* absent.
C2_LengthZeroIffNoRoot == (map.length = 0) <=> (map.root = None)

\* C2, amended: a map without root has length 0, and a map of length 0 has
\* no root or an empty leaf as its root.
C2_NoRootImpliesLengthZero ==
    /\ map.root = None => map.length = 0
    /\ map.length = 0 => (map.root = None \/ Unwrap(map.root) = new_leaf)

\* C2 witness: the last KV was removed and the root is still there.
C2_Witness ==
    /\ last.op \in {"remove", "remove_entry"}
    /\ last.occupied
    /\ map.length = 0
    /\ map.root = Some(new_leaf)

\* What a lookup of key k yields after the call `c` when it yielded `old`
\* before the call: the value the call stored last, if any.
StoredAfter(c, k, old) ==
    IF c.key # k \/ ~c.ok THEN old
    ELSE IF c.op = "or_try_insert" THEN (IF old = None THEN Some(c.val) ELSE old)
    ELSE IF c.op = "and_modify_or_try_insert"
         THEN (IF old = None THEN Some(c.val) ELSE Some(Unwrap(old) + 1))
    ELSE IF c.op = "insert" THEN (IF old = None THEN None ELSE Some(c.val))
    ELSE None

\* C3: as long as every call has succeeded, the length is the number of
\* distinct keys the map holds, and a lookup of each key yields the value
\* stored for it last (nothing for a removed key).
C3_LengthCountsKeysAndLookupIsLastStored ==
    [][declined' = 0 =>
         /\ map'.length = Cardinality(KeySet(map'))
         /\ map'.length = Len(iter(map'))
         /\ \A k \in Keys : get_key(map', k) = StoredAfter(last', k, get_key(map, k))]_vars

\* C3 witness: the map holds every key in a tree of two levels, and the last
\* call overwrote a value.
C3_Witness ==
    /\ declined = 0
    /\ map.length = MaxKey
    /\ TreeHeight(map) >= 1
    /\ last.op = "insert"
    /\ last.occupied
    /\ last.ret # <<last.val>>

\* C4: or_try_insert on an Occupied entry returns the existing value and
\* changes neither the stored value nor the length; on a Vacant entry it
\* stores the given value under the key and the length grows by one.
C4_OrTryInsert ==
    [][last'.op = "or_try_insert" =>
         IF get_key(map, last'.key) # None
         THEN /\ last'.ok
              /\ last'.ret = get_key(map, last'.key)
              /\ get_key(map', last'.key) = get_key(map, last'.key)
              /\ map'.length = map.length
         ELSE last'.ok =>
              /\ get_key(map', last'.key) = Some(last'.val)
              /\ last'.ret = Some(last'.val)
              /\ map'.length = map.length + 1]_vars

\* C4 witness: or_try_insert met a key that holds another value than the
\* one given.
C4_Witness ==
    /\ last.op = "or_try_insert"
    /\ last.occupied
    /\ last.ret # <<last.val>>
    /\ TreeHeight(map) >= 1

\* C5: and_modify applies the closure exactly once to the value of an
\* Occupied entry and does nothing to the map for a Vacant one, and hands on
\* an entry of the same variant: and_modify(+1).or_try_insert(42) on an empty
\* map stores 42 (length 1), and the same call again makes it 43 (length 1).
C5_AndModify ==
    [][/\ \A k \in ScenKeys :
            IF get_key(map, k) = None
            THEN and_modify(map, entry(map, k), Inc) = map
            ELSE get_key(and_modify(map, entry(map, k), Inc), k)
                     = Some(Unwrap(get_key(map, k)) + 1)
       /\ (last'.op = "and_modify_or_try_insert" /\ last'.ok) =>
            IF get_key(map, last'.key) = None
            THEN /\ get_key(map', last'.key) = Some(last'.val)
                 /\ map'.length = map.length + 1
            ELSE /\ get_key(map', last'.key) = Some(Unwrap(get_key(map, last'.key)) + 1)
                 /\ last'.ret = get_key(map', last'.key)
                 /\ map'.length = map.length
       /\ (map = new_map /\ last'.op = "and_modify_or_try_insert" /\ last'.ok
             /\ last'.val = 42) =>
            (get_key(map', last'.key) = Some(42) /\ map'.length = 1)
       /\ (get_key(map, last'.key) = Some(42) /\ map.length = 1
             /\ last'.op = "and_modify_or_try_insert" /\ last'.val = 42) =>
            (get_key(map', last'.key) = Some(43) /\ map'.length = 1)]_vars

\* C5 witness: the chained call has turned the 42 of the only key into 43.
C5_Witness ==
    /\ last.op = "and_modify_or_try_insert"
    /\ last.val = 42
    /\ last.occupied
    /\ last.ret = <<43>>
    /\ map.length = 1

\* The map after a successful map.entry(k).or_try_insert(v).
AfterInsert(m, k, v) == or_try_insert(m, entry(m, k), v, 0).map

\* The map after if let Occupied(o) = map.entry(k) { o.remove() }.
AfterRemove(m, k) == if_occupied_remove(m, entry(m, k)).map

\* C6: inserting an absent key and then removing it restores the length, the
\* key is not among the keys the map yields, and all other pairs are as
\* before the insertion.
C6_InsertThenRemove ==
    \A k \in Keys, v \in Values :
        k \notin KeySet(map) =>
            /\ k \in KeySet(AfterInsert(map, k, v))
            /\ AfterRemove(AfterInsert(map, k, v), k).length = map.length
            /\ k \notin KeySet(AfterRemove(AfterInsert(map, k, v), k))
            /\ iter(AfterRemove(AfterInsert(map, k, v), k)) = iter(map)

\* C6 witness: the root is a full leaf and a key is absent, so that the
\* insertion splits the root and the removal merges the halves again.
C6_Witness ==
    /\ declined = 0
    /\ map.length = CAPACITY
    /\ TreeHeight(map) = 0
    /\ \E k \in Keys :
          /\ k \notin KeySet(map)
          /\ TreeHeight(AfterInsert(map, k, 1)) = 1
          /\ TreeHeight(AfterRemove(AfterInsert(map, k, 1), k)) = 0

\* C7: remove_entry of a stored key returns the stored (key, value) pair,
\* takes one off the length and leaves the key absent; of a key that is not
\* stored it changes nothing.
C7_RemoveEntry ==
    [][last'.op = "remove_entry" =>
         IF get_key(map, last'.key) # None
         THEN /\ last'.ret = <<last'.key, Unwrap(get_key(map, last'.key))>>
              /\ map'.length = map.length - 1
              /\ get_key(map', last'.key) = None
              /\ last'.key \notin KeySet(map')
         ELSE /\ map' = map
              /\ last'.ret = <<>>]_vars

\* C7 witness: remove_entry took a pair out of a map that holds others.
C7_Witness ==
    /\ last.op = "remove_entry"
    /\ last.occupied
    /\ Len(last.ret) = 2
    /\ map.length >= 2

\* The states of the scenario of C8, with "a" = 1 and "b" = 2.
Scenario1(m) == m.length = 1 /\ iter(m) = << <<1, 1>> >>
Scenario2(m) == m.length = 1 /\ iter(m) = << <<1, 2>> >>
Scenario3(m) == m.length = 2 /\ iter(m) = << <<1, 2>>, <<2, 5>> >>
Scenario4(m) == m.length = 1 /\ iter(m) = << <<2, 5>> >>

\* C8: from the empty map, entry(a).or_insert(1) gives value 1 and length 1;
\* then entry(a).and_modify(+1).or_insert(99) gives value 2 and length 1;
\* then entry(b).or_insert(5) gives length 2; then remove_entry(a) gives
\* (a, 2) and length 1.  Each step is stated from the state the step before
\* it ends in.
C8_Scenario ==
    [][/\ (map = new_map /\ last'.op = "or_try_insert" /\ last'.key = 1
             /\ last'.val = 1 /\ last'.ok)
          => (last'.ret = <<1>> /\ Scenario1(map'))
       /\ (Scenario1(map) /\ last'.op = "and_modify_or_try_insert" /\ last'.key = 1
             /\ last'.val = 99)
          => (last'.ok /\ last'.ret = <<2>> /\ Scenario2(map'))
       /\ (Scenario2(map) /\ last'.op = "or_try_insert" /\ last'.key = 2
             /\ last'.val = 5)
          => (last'.ok /\ Scenario3(map'))
       /\ (Scenario3(map) /\ last'.op = "remove_entry" /\ last'.key = 1)
          => (last'.ret = <<1, 2>> /\ Scenario4(map'))]_vars

\* C8 witness: the state the scenario ends in.
C8_Witness ==
    /\ declined = 0
    /\ last.op = "remove_entry"
    /\ last.ret = <<1, 2>>
    /\ Scenario4(map)

\* C9: an iteration yields the keys in strictly ascending order.
C9_KeysStrictlyAscending == StrictlyAscending(KeySeq(map))

\* C9 witness: every key is stored, in a tree of two levels.
C9_Witness == map.length = MaxKey /\ Len(iter(map)) = MaxKey /\ TreeHeight(map) >= 1

\* C10: entry(key) is Occupied exactly when the key is stored; a Vacant entry
\* has no handle exactly when the map has no root, and every entry of a map
\* without root is Vacant without handle.
C10_EntryVariant ==
    \A k \in Keys :
        /\ entry(map, k).tag = "Occupied" <=> k \in KeySet(map)
        /\ entry(map, k).tag \in {"Occupied", "Vacant"}
        /\ entry(map, k).tag = "Vacant" =>
               (entry(map, k).handle = None <=> map.root = None)
        /\ map.root = None =>
               (entry(map, k).tag = "Vacant" /\ entry(map, k).handle = None)
        /\ entry(map, k).tag = "Occupied" => occupied_key(map, entry(map, k)) = k

\* C10 witness: a tree of two levels in which one key is stored in the root,
\* one in a leaf, and one is absent.
C10_Witness ==
    /\ TreeHeight(map) >= 1
    /\ \E k \in Keys : k \notin KeySet(map) /\ entry(map, k).handle # None
    /\ \E k \in Keys : entry(map, k).tag = "Occupied" /\ Unwrap(entry(map, k).handle).path = <<>>
    /\ \E k \in Keys : entry(map, k).tag = "Occupied" /\ Unwrap(entry(map, k).handle).path # <<>>

\* What the entry commit of key k with value v does when the allocator
\* declines request number failAt of the call (0: none).
Commit(k, v, failAt) == or_try_insert(map, entry(map, k), v, failAt)

\* The commit with the result r failed exactly when the request that the
\* allocator declines is one of those it made, and made none on an Occupied
\* entry.
ErrorIffDeclined(r, failAt, occupied) ==
    /\ r.ok <=> failAt \notin 1..r.allocs
    /\ occupied => (r.ok /\ r.allocs = 0)

\* C11: an entry commit that needs allocation returns an error exactly when
\* one of the allocator requests it makes is declined, and operations on an
\* Occupied entry request no allocation and do not fail.
C11_ErrorIffRequestDeclined ==
    /\ \A k \in Keys, v \in Values, failAt \in FailAts :
           ErrorIffDeclined(Commit(k, v, failAt), failAt, k \in KeySet(map))
    /\ (last.occupied \/ last.op \in {"remove", "remove_entry", "insert"}) =>
           (last.ok /\ last.allocs = 0)
    /\ ~last.ok => last.allocs \in 1..MaxFailAt

\* C11 witness: an insertion failed at its second request, the new root of
\* a root split.
C11_Witness ==
    /\ last.op = "or_try_insert"
    /\ ~last.ok
    /\ ~last.occupied
    /\ last.allocs = 2

\* C12: OccupiedEntry::insert returns the value that was stored under the
\* key, leaves the new value stored under it, and changes neither the
\* length nor any other pair.
C12_OccupiedInsert ==
    [][(last'.op = "insert" /\ last'.occupied) =>
         /\ last'.ret = get_key(map, last'.key)
         /\ get_key(map', last'.key) = Some(last'.val)
         /\ map'.length = map.length
         /\ KeySeq(map') = KeySeq(map)
         /\ \A k \in Keys \ {last'.key} : get_key(map', k) = get_key(map, k)]_vars

\* C12 witness: insert replaced a value by a different one in a tree of two
\* levels that holds other keys.
C12_Witness ==
    /\ last.op = "insert"
    /\ last.occupied
    /\ last.ret # <<last.val>>
    /\ get_key(map, last.key) = <<last.val>>
    /\ TreeHeight(map) >= 1
    /\ map.length >= 3

\* C13: when an insert-if-absent collides with a stored key, the result
\* carries the Occupied entry of that key and the value that was not
\* inserted, and the stored value of the key and the length are unchanged.
C13_Collision ==
    [][(last'.op = "try_insert" /\ last'.occupied) =>
         /\ ~last'.ok
         /\ Len(last'.ret) = 1
         /\ last'.ret[1].value = last'.val
         /\ last'.ret[1].entry.tag = "Occupied"
         /\ occupied_key(map', last'.ret[1].entry) = last'.key
         /\ Some(get(map', last'.ret[1].entry)) = get_key(map, last'.key)
         /\ get_key(map', last'.key) = get_key(map, last'.key)
         /\ map'.length = map.length
         /\ iter(map') = iter(map)]_vars

\* C13 witness: a collision with a key that holds another value than the
\* one offered, in a tree of two levels.
C13_Witness ==
    /\ last.op = "try_insert"
    /\ last.occupied
    /\ ~last.ok
    /\ get_key(map, last.key) # <<last.val>>
    /\ TreeHeight(map) >= 1

\* The minimum non-zero capacity for elements of `size` bytes.
MinCapOf(size) == IF size = 1 THEN 8 ELSE IF size <= 1024 THEN 4 ELSE 1

Max3(a, b, c) == cmp_max(a, cmp_max(b, c))

Reserves == {"try_reserve", "try_reserve_exact"}

\* C14: try_reserve(len, additional) asks the allocator for memory only if
\* additional > capacity - len, and when it grows and succeeds the new
\* capacity is max(2 * oldCapacity, len + additional, MIN_NON_ZERO_CAP) with
\* MIN_NON_ZERO_CAP 8 for 1-byte elements, 4 up to 1024 bytes, else 1.
C14_TryReserve ==
    [][rlast'.op = "try_reserve" =>
         /\ rlast'.calls # <<>> =>
                rlast'.additional > capacity(raw_vec, elem) - rlast'.len
         /\ (rlast'.grew /\ rlast'.result = "Ok") =>
                raw_vec'.cap = Max3(2 * raw_vec.cap, rlast'.len + rlast'.additional,
                                    MinCapOf(elem.size))]_vars

\* C14 witness: a growth that the doubling decided.
C14_Witness ==
    /\ rlast.op = "try_reserve"
    /\ rlast.grew
    /\ rlast.result = "Ok"
    /\ raw_vec.cap > rlast.len + rlast.additional
    /\ raw_vec.cap > MinCapOf(elem.size)

\* C15: when try_reserve, try_reserve_exact or try_reserve_for_push returns
\* an error, the pointer and the capacity of the buffer are what they were
\* before the call.
C15_ErrorLeavesBuffer ==
    [][(/\ rlast'.op \in Reserves \cup {"try_reserve_for_push"}
        /\ rlast'.result \in {"AllocError", "CapacityOverflow"}) =>
         /\ raw_vec'.ptr = raw_vec.ptr
         /\ raw_vec'.cap = raw_vec.cap
         /\ allocator'.live = allocator.live]_vars

\* C15 witness: the allocator declined to grow a block.
C15_Witness ==
    /\ rlast.op \in Reserves \cup {"try_reserve_for_push"}
    /\ rlast.result = "AllocError"
    /\ Len(rlast.calls) = 1
    /\ rlast.calls[1].op = "grow"
    /\ raw_vec.cap > 0

\* What C16 gives as the capacity after reserve(0, k) from capacity prev.
ReserveZeroCap(prev, k, min) ==
    IF cmp_max(2 * prev, k) > min THEN cmp_max(2 * prev, k) ELSE cmp_max(min, k)

\* C16: after a reserve(len = 0, additional = k) that succeeds the capacity
\* is at least k, and it is max(2 * previousCapacity, k) when that exceeds
\* the minimum non-zero capacity, else max(minimumNonZeroCapacity, k).
\* Read for elements of non-zero size and k > 0.
C16_ReserveFromZero ==
    [][(/\ rlast'.op = "try_reserve"
        /\ rlast'.len = 0
        /\ rlast'.additional > 0
        /\ rlast'.result = "Ok"
        /\ ~IS_ZST(elem)) =>
         /\ capacity(raw_vec', elem) >= rlast'.additional
         /\ capacity(raw_vec', elem)
                = ReserveZeroCap(capacity(raw_vec, elem), rlast'.additional,
                                 MinCapOf(elem.size))]_vars

\* C16, amended: after a reserve(len = 0, additional = k) that succeeds the
\* capacity is at least k; the call grows exactly when k exceeds the
\* previous capacity, the capacity is then the one C16 gives, and otherwise
\* the buffer is as it was.
C16_ReserveFromZeroWhenGrowing ==
    [][(rlast'.op = "try_reserve" /\ rlast'.len = 0 /\ rlast'.result = "Ok") =>
         /\ capacity(raw_vec', elem) >= rlast'.additional
         /\ rlast'.grew <=> rlast'.additional > capacity(raw_vec, elem)
         /\ rlast'.grew =>
                raw_vec'.cap = ReserveZeroCap(raw_vec.cap, rlast'.additional,
                                              MinCapOf(elem.size))
         /\ ~rlast'.grew => (raw_vec' = raw_vec /\ rlast'.calls = <<>>)]_vars

\* C16 witness: reserve(0, k) grew a buffer to twice its capacity, which is
\* more than k.
C16_Witness ==
    /\ rlast.op = "try_reserve"
    /\ rlast.len = 0
    /\ rlast.result = "Ok"
    /\ rlast.grew
    /\ rlast.calls[1].op = "grow"
    /\ raw_vec.cap > rlast.additional
    /\ raw_vec.cap > MinCapOf(elem.size)

\* C17: try_reserve_exact grows under the trigger of try_reserve, which is
\* additional > capacity - len; when it grows and succeeds the new capacity
\* is exactly len + additional, and when the trigger does not hold it makes
\* no allocator call and the capacity is unchanged.
C17_TryReserveExact ==
    [][rlast'.op = "try_reserve_exact" =>
         /\ rlast'.grew
                = try_reserve(raw_vec, rlast'.len, rlast'.additional, Cx("moved")).grew
         /\ rlast'.len <= capacity(raw_vec, elem) =>
                (rlast'.grew <=>
                     rlast'.additional > capacity(raw_vec, elem) - rlast'.len)
         /\ (rlast'.grew /\ rlast'.result = "Ok") =>
                raw_vec'.cap = rlast'.len + rlast'.additional
         /\ ~(rlast'.additional > capacity(raw_vec, elem) - rlast'.len) =>
                /\ rlast'.calls = <<>>
                /\ rlast'.result = "Ok"
                /\ raw_vec' = raw_vec]_vars

\* C17 witness: an exact growth of a block to less than twice its size.
C17_Witness ==
    /\ rlast.op = "try_reserve_exact"
    /\ rlast.grew
    /\ rlast.result = "Ok"
    /\ raw_vec.cap = rlast.len + rlast.additional
    /\ rlast.calls[1].op = "grow"
    /\ 2 * Unwrap(rlast.calls[1].old).size > Unwrap(rlast.calls[1].new).size

\* C18: for every len <= capacity() and every additional, when try_reserve
\* or try_reserve_exact returns Ok the capacity() is at least
\* len + additional.
C18_OkMeansRoom ==
    [][(/\ rlast'.op \in Reserves
        /\ rlast'.len <= capacity(raw_vec, elem)
        /\ rlast'.result = "Ok") =>
         capacity(raw_vec', elem) >= rlast'.len + rlast'.additional]_vars

\* C18 witness: a block that was in use to its end was grown.
C18_Witness ==
    /\ rlast.op \in Reserves
    /\ rlast.result = "Ok"
    /\ rlast.grew
    /\ rlast.len > 0
    /\ rlast.calls[1].op = "grow"
    /\ Unwrap(rlast.calls[1].old).size = rlast.len * elem.size
    /\ raw_vec.cap >= rlast.len + rlast.additional

\* The capacity a growing reserve call asks for.
AskedCap(c, rv) ==
    IF c.op = "try_reserve_exact" THEN c.len + c.additional
    ELSE Max3(2 * rv.cap, c.len + c.additional, MinCapOf(elem.size))

\* The layouts of the request r are those of `from` and `to` elements,
\* computed without wrapping, and the new one is within isize::MAX.
LayoutsExact(r, from, to) ==
    /\ r.old # None => Unwrap(r.old).size = elem.size * from
    /\ r.new # None =>
           /\ Unwrap(r.new).size = elem.size * to
           /\ Unwrap(r.new).size <= ISIZE_MAX

\* The part of C19 on sizes in bytes: a capacity whose size exceeds
\* isize::MAX is refused with CapacityOverflow, and no request carries a
\* wrapped size.
C19_Sizes ==
    /\ (/\ rlast'.op \in Reserves
        /\ rlast'.grew
        /\ rlast'.len + rlast'.additional <= USIZE_MAX
        /\ elem.size * AskedCap(rlast', raw_vec) > ISIZE_MAX) =>
           (rlast'.result = "CapacityOverflow" /\ rlast'.calls = <<>>)
    /\ (/\ rlast'.op = "try_with_capacity_in"
        /\ elem.size * rlast'.additional > ISIZE_MAX) =>
           (rlast'.result = "CapacityOverflow" /\ rlast'.calls = <<>>)
    /\ rlast'.op \in Reserves =>
           \A i \in 1..Len(rlast'.calls) :
               LayoutsExact(rlast'.calls[i], raw_vec.cap, AskedCap(rlast', raw_vec))
    /\ rlast'.op = "try_with_capacity_in" =>
           \A i \in 1..Len(rlast'.calls) :
               LayoutsExact(rlast'.calls[i], 0, rlast'.additional)

C20_TryWithCapacityIn ==
    [][(rlast'.op = "try_with_capacity_in" /\ ~IS_ZST(elem) /\ rlast'.additional > 0) =>
         IF elem.size * rlast'.additional > ISIZE_MAX
         THEN /\ rlast'.result = "CapacityOverflow"
              /\ rlast'.calls = <<>>
              /\ allocator' = allocator
         ELSE /\ Len(rlast'.calls) = 1
              /\ rlast'.calls[1].op = "allocate"
              /\ Unwrap(rlast'.calls[1].new).size = elem.size * rlast'.additional
              /\ allocator'.requests = allocator.requests + 1
              /\ IF rlast'.calls[1].ret = None
                 THEN rlast'.result = "AllocError"
                 ELSE /\ rlast'.result = "Ok"
                      /\ raw_vec'.cap = rlast'.additional
                      /\ raw_vec'.ptr = Unwrap(rlast'.calls[1].ret)]_vars

\* C20 witness: a buffer of capacity 9 was made.
C20_Witness ==
    /\ rlast.op = "try_with_capacity_in"
    /\ rlast.result = "Ok"
    /\ rlast.additional = 9
    /\ raw_vec.cap = 9
    /\ raw_vec.ptr # dangling

\* The block a buffer of capacity rv.cap holds, as the allocator knows it.
BlockOf(rv) ==
    [ptr |-> rv.ptr, layout |-> [size |-> elem.size * rv.cap, align |-> elem.align]]

\* C21: new_in, and try_with_capacity_in(n) with n = 0 or a zero-sized
\* element type, make no allocator call and give a buffer of tracked
\* capacity 0 with the dangling pointer; for a zero-sized element type no
\* operation calls the allocator and capacity() is usize::MAX.
C21_EmptyAndZeroSized ==
    [][/\ (new_in.cap = 0 /\ new_in.ptr = dangling)
       /\ (rlast.op = "new_in" /\ rlast.calls = <<>>) => raw_vec = new_in
       /\ (/\ rlast'.op = "try_with_capacity_in"
           /\ (rlast'.additional = 0 \/ IS_ZST(elem))) =>
              /\ rlast'.result = "Ok"
              /\ rlast'.calls = <<>>
              /\ allocator' = allocator
              /\ raw_vec'.cap = 0
              /\ raw_vec'.ptr = dangling
       /\ IS_ZST(elem) =>
              /\ rlast'.calls = <<>>
              /\ allocator'.requests = 0
              /\ allocator'.live = {}
              /\ capacity(raw_vec, elem) = USIZE_MAX
              /\ capacity(raw_vec', elem) = USIZE_MAX
              /\ raw_vec' = new_in]_vars

\* C21 witness: a buffer of zero-sized elements was made with capacity 9.
C21_Witness ==
    /\ IS_ZST(elem)
    /\ rlast.op = "try_with_capacity_in"
    /\ rlast.additional = 9
    /\ rlast.result = "Ok"
    /\ raw_vec = new_in

\* C22: for elements of non-zero size the tracked capacity is 0 exactly
\* when the buffer holds no live block of the allocator, and the pointer is
\* the dangling one whenever the capacity is 0.
C22_CapacityZeroIffNoBlock ==
    ~IS_ZST(elem) =>
        /\ raw_vec.cap = 0 <=> allocator.live = {}
        /\ raw_vec.cap = 0 => raw_vec.ptr = dangling
        /\ raw_vec.cap > 0 => allocator.live = {BlockOf(raw_vec)}

\* C22 witness: a shrink to 0 gave the block back.
C22_Witness ==
    /\ ~IS_ZST(elem)
    /\ rlast.op = "try_shrink_to_fit"
    /\ rlast.additional = 0
    /\ Len(rlast.calls) = 1
    /\ raw_vec.cap = 0
    /\ allocator.live = {}

\* C23: try_shrink_to_fit(target) with target > capacity() panics before
\* any allocator call or change of state; with target = 0 on an allocated
\* buffer it calls deallocate once and leaves the empty buffer; with
\* 0 < target <= capacity on an allocated buffer it calls the allocator's
\* shrink, and the capacity is target when that succeeds.
C23_ShrinkToFit ==
    [][rlast'.op = "try_shrink_to_fit" =>
         IF rlast'.additional > capacity(raw_vec, elem)
         THEN /\ rlast'.result = "Panic"
              /\ rlast'.calls = <<>>
              /\ raw_vec' = raw_vec
              /\ allocator' = allocator
         ELSE /\ rlast'.result # "Panic"
              /\ (rlast'.additional = 0 /\ allocator.live # {}) =>
                     /\ Len(rlast'.calls) = 1
                     /\ rlast'.calls[1].op = "deallocate"
                     /\ rlast'.result = "Ok"
                     /\ raw_vec'.cap = 0
                     /\ raw_vec'.ptr = dangling
                     /\ allocator'.live = {}
              /\ (rlast'.additional > 0 /\ allocator.live # {}) =>
                     /\ Len(rlast'.calls) = 1
                     /\ rlast'.calls[1].op = "shrink"
                     /\ Unwrap(rlast'.calls[1].new).size
                            = elem.size * rlast'.additional
                     /\ rlast'.result = "Ok" <=> rlast'.calls[1].ret # None
                     /\ rlast'.result = "Ok" =>
                            /\ raw_vec'.cap = rlast'.additional
                            /\ raw_vec'.ptr = Unwrap(rlast'.calls[1].ret)]_vars

\* C23 witness: a block was shrunk to a smaller capacity that is not 0.
C23_Witness ==
    /\ rlast.op = "try_shrink_to_fit"
    /\ rlast.result = "Ok"
    /\ rlast.additional > 0
    /\ Len(rlast.calls) = 1
    /\ rlast.calls[1].op = "shrink"
    /\ Unwrap(rlast.calls[1].old).size > Unwrap(rlast.calls[1].new).size
    /\ raw_vec.cap = rlast.additional

\* The request c gives up a block.
Releases(c) == c.op = "deallocate" \/ (c.op \in {"grow", "shrink"} /\ c.ret # None)

\* C24: every block obtained from the allocator is released exactly once,
\* by deallocate or by a successful grow or shrink, with the layout of the
\* request that produced it (element size times the current capacity); a
\* dropped buffer leaves no block behind, and a buffer of capacity 0 never
\* calls deallocate.
C24_BlocksReleasedOnce ==
    [][/\ \A i \in 1..Len(rlast'.calls) :
              /\ rlast'.calls[i].op # "allocate" =>
                     /\ rlast'.calls[i].ptr = raw_vec.ptr
                     /\ rlast'.calls[i].old = Some(BlockOf(raw_vec).layout)
                     /\ BlockOf(raw_vec) \in allocator.live
              /\ Releases(rlast'.calls[i]) =>
                     BlockOf(raw_vec) \in allocator.live
              /\ rlast'.calls[i].op = "deallocate" => raw_vec.cap > 0
              /\ rlast'.calls[i].op = "allocate" => allocator.live = {}
       /\ Cardinality(allocator'.live) <= 1
       /\ (raw_vec'.cap > 0 /\ ~IS_ZST(elem)) => allocator'.live = {BlockOf(raw_vec')}
       /\ rlast'.op = "drop" =>
              /\ allocator'.live = {}
              /\ Len(rlast'.calls) = (IF allocator.live = {} THEN 0 ELSE 1)]_vars

\* C24 witness: a buffer whose block had been moved by a growth was
\* dropped, and the block went back to the allocator.
C24_Witness ==
    /\ rlast.op = "drop"
    /\ Len(rlast.calls) = 1
    /\ rlast.calls[1].op = "deallocate"
    /\ rlast.calls[1].ptr = 2
    /\ allocator.live = {}

Reactivations == {"awaken", "reborrow"}

CountOf(events, steps) == Cardinality({i \in 1..Len(events) : events[i] \in steps})

\* Every reactivation among the events happens while no handle is live.
ReactivatedWithoutHandles(events, initial) ==
    \A i \in 1..Len(events) :
        events[i] \in Reactivations => live_handles(events, i, initial) = 0

\* The handles an entry holds when the operation starts.
HandlesOf(e) == IF e.handle = None THEN 0 ELSE 1

\* The events of the operation on the entry e: a removal for an Occupied
\* entry, an insertion of the value 1 for a Vacant one.
EntryEvents(e, failAt) ==
    IF e.tag = "Occupied" THEN remove_kv_events
    ELSE try_insert_events(map, e, 1, failAt)

\* The events ev reactivate the map once, with no handle live.
OneReactivation(ev, initial) ==
    /\ CountOf(ev, Reactivations) = 1
    /\ ReactivatedWithoutHandles(ev, initial)

InsertReactivations(ev, ok, root_split) ==
    /\ CountOf(ev, {"awaken"}) = (IF ok THEN 1 ELSE 0)
    /\ CountOf(ev, {"reborrow"}) = (IF root_split THEN 1 ELSE 0)
    /\ ok => ev[Len(ev)] = "awaken"
    /\ ReactivatedWithoutHandles(ev, 1)

\* The insertion at the entry e, whose insert_recursing returns ins.
InsertBelowRoot(e, ins, failAt) ==
    InsertReactivations(try_insert_root_events(ins, failAt),
                        try_insert_finish(map, e, try_insert_root(ins, failAt)).ok,
                        ins.status = "split")

\* The operation on the entry e keeps to the discipline of C25 as amended.
AwakenedOnceAfterHandles(e, failAt) ==
    IF e.tag = "Occupied" THEN OneReactivation(remove_kv_events, 1)
    ELSE IF e.handle = None
    THEN /\ try_insert_events(map, e, 1, failAt) = <<"awaken">>
         /\ map.root = None
    ELSE InsertBelowRoot(e,
             insert_recursing(Unwrap(map.root), Unwrap(e.handle), e.key, 1, failAt),
             failAt)

ValueComparison(op) ==
    IF op = "partial_eq" THEN "Value::partial_eq_with" ELSE "Value::eq_with"

\* C26: partial_eq and eq return false whenever the operands are different
\* variants, without comparing the payloads, and return exactly the result
\* of the comparison of the payloads when both are Continue or both are
\* Break.
C26_VariantsThenPayloads ==
    flow.op \in {"partial_eq", "eq"} =>
        IF flow.self.tag # flow.other.tag
        THEN /\ flow.result = Ok(FALSE)
             /\ flow.calls = <<>>
        ELSE /\ Len(flow.calls) = 1
             /\ flow.calls[1].fn = ValueComparison(flow.op)
             /\ flow.calls[1].a = flow.self.value
             /\ flow.calls[1].b = flow.other.value
             /\ flow.result = flow.calls[1].ret

\* C26 witness: eq of a Break and a Continue that hold the same payload.
C26_Witness ==
    /\ flow.op = "eq"
    /\ flow.self = Break(2)
    /\ flow.other = Continue(2)
    /\ flow.result = Ok(FALSE)

\* The root that a successful split_root installs: the median alone, the
\* old root to its left and the new sibling to its right.
TallerRoot(ins) ==
    [keys |-> <<ins.kv[1]>>, vals |-> <<ins.kv[2]>>,
     edges |-> <<ins.node, Unwrap(ins.right)>>]

\* What insert_recursing with the split_root closure (top) makes of the
\* result ins of the insertion below the root.  Each invocation of the
\* closure makes one request to the allocator, for the new root.
RootSplitContinuation(ins, top, r) ==
    /\ top.allocs - ins.allocs = (IF ins.status = "split" THEN 1 ELSE 0)
    /\ (ins.status = "split" /\ top.ok) =>
          /\ r.ok
          /\ r.map.root = Some(TallerRoot(ins))
          /\ TreeHeight(r.map) = TreeHeight(map) + 1
          /\ height(ins.node) = TreeHeight(map)
          /\ height(Unwrap(ins.right)) = TreeHeight(map)
    /\ ins.status # "split" =>
          /\ r.map.root = Some(ins.node)
          /\ TreeHeight(r.map) = TreeHeight(map)
          /\ r.ok = (ins.status = "fit")

RootSplitAt(e, ins, top) ==
    RootSplitContinuation(ins, top, try_insert_finish(map, e, top))

RootSplitBelow(e, ins, failAt) == RootSplitAt(e, ins, try_insert_root(ins, failAt))

\* insert_recursing for the insertion of the value 1 at the Vacant entry e.
InsertBelow(e, failAt) ==
    insert_recursing(Unwrap(map.root), Unwrap(e.handle), e.key, 1, failAt)

RootSplitOnce(e, failAt) ==
    (e.tag = "Vacant" /\ e.handle # None) =>
        RootSplitBelow(e, InsertBelow(e, failAt), failAt)

\* C28: during one try_insert into a map that has a root, the root-split
\* continuation is invoked exactly once if the split propagates to the root
\* and not at all otherwise; when invoked and successful, it installs a new
\* root one level taller that holds exactly the propagated median
\* key/value, with the old root as its left child and the new sibling as
\* its right child.
C28_RootSplitOnce ==
    \A k \in TreeKeys, failAt \in FailAts : RootSplitOnce(entry(map, k), failAt)

\* C28 witness: a tree of two levels in which the insertion of a key splits
\* a leaf, then the root, and makes a tree of three levels.
C28_Witness ==
    /\ TreeHeight(map) = 1
    /\ \E k \in TreeKeys :
          /\ entry(map, k).tag = "Vacant"
          /\ InsertBelow(entry(map, k), 0).status = "split"
          /\ TreeHeight(AfterInsert(map, k, 1)) = 2

\* remove_kv_tracking of the stored key k signals an emptied internal root.
EmptiedInternalRoot(k) ==
    remove_kv_tracking(Unwrap(map.root), Unwrap(entry(map, k).handle)).emptied

\* The insertion of the key k splits the root.
SplitsRoot(k) ==
    /\ entry(map, k).tag = "Vacant"
    /\ entry(map, k).handle # None
    /\ InsertBelow(entry(map, k), 0).status = "split"

\* C29: a removal through OccupiedEntry decreases the length by exactly
\* one, and decreases the tree height by exactly one if and only if the
\* removal signalled an emptied internal root; the tree height otherwise
\* changes only by exactly plus one, through push_internal_level on a root
\* split.
C29_HeightChanges ==
    [][/\ (last'.op = "remove" /\ last'.occupied) =>
             /\ map'.length = map.length - 1
             /\ TreeHeight(map') =
                    TreeHeight(map) - (IF EmptiedInternalRoot(last'.key) THEN 1 ELSE 0)
             /\ EmptiedInternalRoot(last'.key) =>
                    (TreeHeight(map) >= 1 /\ NodeLen(Unwrap(map.root)) = 1)
       /\ (last'.op = "remove" /\ ~last'.occupied) => map' = map
       /\ last'.op = "or_try_insert" =>
             TreeHeight(map') =
                 TreeHeight(map) + (IF SplitsRoot(last'.key) THEN 1 ELSE 0)]_vars

\* C29 witness: a tree of three levels in which the removal of a key
\* empties the root, and the tree is one level lower after it.
C29_Witness ==
    /\ TreeHeight(map) = 2
    /\ \E k \in TreeKeys :
          /\ entry(map, k).tag = "Occupied"
          /\ EmptiedInternalRoot(k)
          /\ AfterRemove(map, k).length = map.length - 1
          /\ TreeHeight(AfterRemove(map, k)) = 1

\* The depths of the leaves below the node n, which is at depth d.
RECURSIVE LeafDepths(_, _)
LeafDepths(n, d) ==
    IF IsLeaf(n) THEN {d}
    ELSE UNION {LeafDepths(n.edges[i], d + 1) : i \in 1..Len(n.edges)}

\* The node n and every node below it has its keys in strictly ascending
\* order, a value for each key, at most 2 * Order - 1 KVs and, when it is
\* internal, one child more than it has KVs.
RECURSIVE NodesWellFormed(_)
NodesWellFormed(n) ==
    /\ StrictlyAscending(n.keys)
    /\ Len(n.vals) = Len(n.keys)
    /\ Len(n.keys) <= 2 * Order - 1
    /\ IsLeaf(n) \/ Len(n.edges) = Len(n.keys) + 1
    /\ \A i \in 1..Len(n.edges) : NodesWellFormed(n.edges[i])

\* C30: after any sequence of successful insertions and removals, every
\* leaf of the tree is at the same depth, keys within each node are strictly
\* ordered, no node holds more than 2 * Order - 1 key/value pairs, and every
\* internal node has exactly len + 1 children.
C30_WellFormed ==
    map.root # None =>
        /\ Cardinality(LeafDepths(Unwrap(map.root), 0)) = 1
        /\ NodesWellFormed(Unwrap(map.root))

\* C30 witness: a tree of three levels that a removal has left in three
\* levels.
C30_Witness ==
    /\ last.op = "remove"
    /\ last.occupied
    /\ TreeHeight(map) = 2
    /\ map.length = MaxTreeKey - 1

\* The call that has just returned made the first insertion into a map
\* with no root.
FirstInsertion ==
    /\ map.root = None
    /\ last'.op \in {"or_try_insert", "and_modify_or_try_insert"}

\* C31: the first insertion into a map with no root allocates exactly one
\* leaf, stores the key/value in it, installs it as the root and sets the
\* length to exactly 1; if that leaf allocation is declined, the map still
\* has no root and length 0.
C31_FirstInsertion ==
    [][FirstInsertion =>
         /\ last'.allocs = 1
         /\ IF last'.ok
            THEN /\ map'.root = Some([keys |-> <<last'.key>>, vals |-> <<last'.val>>,
                                      edges |-> <<>>])
                 /\ map'.length = 1
                 /\ last'.ret = <<last'.val>>
            ELSE /\ map'.root = None
                 /\ map'.length = 0
                 /\ map.length = 0]_vars

\* C31 witness: the allocator declined the leaf of a first insertion, and
\* the map has no root.
C31_Witness ==
    /\ last.op = "or_try_insert"
    /\ ~last.ok
    /\ last.allocs = 1
    /\ map.root = None
    /\ map.length = 0

\* The arguments the default function of the operation op gets for key.
DefaultArgs(op, key) == IF op = "or_try_insert_with_key" THEN <<key>> ELSE <<>>

\* What the default function f of the operation op returns for key.
DefaultValue(op, f, key) ==
    IF op = "or_try_insert_with_key" THEN key_default(f, key)
    ELSE IF op = "or_try_default" THEN Default_default
    ELSE f

\* The call c with the calls d of the default function, on a key that held
\* `old` before the call and holds `new` after it.
DefaultStep(c, d, old, new) ==
    IF old # None
    THEN /\ d = <<>>
         /\ map' = map
         /\ c.ok
         /\ c.ret = <<Unwrap(old)>>
    ELSE /\ Len(d) = 1
         /\ d[1].args = DefaultArgs(c.op, c.key)
         /\ d[1].ret = DefaultValue(c.op, d[1].fn, c.key)
         /\ c.op = "or_try_default" => d[1].fn = "Default::default"
         /\ c.ok =>
               /\ new = Some(d[1].ret)
               /\ c.ret = <<d[1].ret>>
               /\ map'.length = map.length + 1

\* C32: or_try_insert_with(f) and or_try_insert_with_key(f) call the
\* default function exactly once when the entry is Vacant and never when it
\* is Occupied; or_try_insert_with_key passes the key given to entry() and
\* stores f(key) under that same key; or_try_default stores the value
\* type's default only when Vacant.
C32_DefaultCalledOnceWhenVacant ==
    [][last'.op \in {"or_try_insert_with", "or_try_insert_with_key", "or_try_default"} =>
         DefaultStep(last', defaults', get_key(map, last'.key),
                     get_key(map', last'.key))]_vars

\* C32 witness: or_try_insert_with_key found the key vacant in a tree of
\* two levels, called `|k| k % 2 + 1` with the key and stored what it
\* returned, which is not the value type's default.
C32_Witness ==
    /\ last.op = "or_try_insert_with_key"
    /\ ~last.occupied
    /\ last.ok
    /\ defaults = <<default_call("parity", <<last.key>>, 2)>>
    /\ get_key(map, last.key) = Some(2)
    /\ TreeHeight(map) >= 1

\* The request c, made on a buffer that holds the block mem, names that
\* block and its layout and keeps the alignment.
OnBlock(c, mem) ==
    /\ mem # None
    /\ c.ptr = Unwrap(mem).ptr
    /\ c.old = Some(Unwrap(mem).layout)
    /\ [ptr |-> c.ptr, layout |-> Unwrap(c.old)] \in allocator.live
    /\ Unwrap(c.new).align = Unwrap(c.old).align

\* The request c respects the allocator contract on a buffer whose block, if
\* it holds one, is mem.
RespectsContract(c, mem) ==
    /\ c.op = "allocate" => (mem = None /\ c.old = None /\ allocator.live = {})
    /\ c.op = "grow" =>
          (OnBlock(c, mem) /\ Unwrap(c.new).size >= Unwrap(c.old).size)
    /\ c.op = "shrink" =>
          (OnBlock(c, mem) /\ Unwrap(c.new).size <= Unwrap(c.old).size)

\* The operations that obtain memory for the buffer.
GrowthOps == Reserves \cup {"try_reserve_for_push", "try_with_capacity_in"}

\* C33: every allocator call the buffer makes respects the allocator
\* contract: growth uses grow when the buffer already holds a block and
\* allocate otherwise; every grow is called with the block's current layout
\* as old layout and a new layout of the same alignment and size >= the old
\* size; every shrink is called with a new layout of the same alignment and
\* size <= the old size.
C33_AllocatorContract ==
    [][\A i \in 1..Len(rlast'.calls) :
          /\ RespectsContract(rlast'.calls[i], current_memory(raw_vec, elem))
          /\ rlast'.op \in GrowthOps =>
                rlast'.calls[i].op =
                    (IF current_memory(raw_vec, elem) # None THEN "grow"
                     ELSE "allocate")
          /\ rlast'.op = "try_shrink_to_fit" =>
                rlast'.calls[i].op \in {"shrink", "deallocate"}]_vars

\* C33 witness: a reserve on a buffer that holds a block made a grow
\* request for a larger block of the same alignment, which was granted.
C33_Witness ==
    /\ rlast.op \in Reserves
    /\ rlast.result = "Ok"
    /\ Len(rlast.calls) = 1
    /\ rlast.calls[1].op = "grow"
    /\ Unwrap(rlast.calls[1].new).size > Unwrap(rlast.calls[1].old).size
    /\ Unwrap(rlast.calls[1].new).align = Unwrap(rlast.calls[1].old).align
    /\ elem.size > 1

\* C34: no successful try_reserve, try_reserve_exact or
\* try_reserve_for_push ever decreases the buffer's capacity, for any len
\* and additional (including len greater than the current capacity).
C34_ReserveNeverShrinks ==
    [][(/\ rlast'.op \in Reserves \cup {"try_reserve_for_push"}
        /\ rlast'.result = "Ok") =>
         /\ raw_vec'.cap >= raw_vec.cap
         /\ capacity(raw_vec', elem) >= capacity(raw_vec, elem)]_vars

\* C34 witness: try_reserve_for_push with a len above the capacity grew a
\* block to len + 1 elements.
C34_Witness ==
    /\ rlast.op = "try_reserve_for_push"
    /\ rlast.result = "Ok"
    /\ Len(rlast.calls) = 1
    /\ rlast.calls[1].op = "grow"
    /\ Unwrap(rlast.calls[1].old).size < rlast.len * elem.size
    /\ raw_vec.cap = rlast.len + 1

\* C35: when try_reserve or try_reserve_exact is called with len greater
\* than the current capacity of a buffer of non-zero-sized elements, the
\* wrapping subtraction in the growth trigger never leads to an allocation
\* of fewer than len + additional elements: the call either returns
\* CapacityOverflow or returns Ok without calling the allocator and without
\* changing the capacity.
C35_LenAboveCapacity ==
    [][(/\ rlast'.op \in Reserves
        /\ ~IS_ZST(elem)
        /\ rlast'.len > capacity(raw_vec, elem)) =>
         /\ rlast'.calls = <<>>
         /\ allocator' = allocator
         /\ raw_vec' = raw_vec
         /\ rlast'.result \in {"CapacityOverflow", "Ok"}
         /\ rlast'.result = "CapacityOverflow" =>
                rlast'.len + rlast'.additional > USIZE_MAX
         /\ rlast'.result = "CapacityOverflow" <=> rlast'.grew]_vars

\* C35 witness: on a buffer that holds a block, a reserve with len above
\* the capacity took the growth path, because the subtraction wrapped, and
\* ended in CapacityOverflow.
C35_Witness ==
    /\ rlast.op \in Reserves
    /\ ~IS_ZST(elem)
    /\ raw_vec.cap > 0
    /\ rlast.len > raw_vec.cap
    /\ rlast.len < USIZE_MAX
    /\ rlast.grew
    /\ rlast.result = "CapacityOverflow"
    /\ rlast.calls = <<>>

\* The call that has just returned is a try_shrink_to_fit to a capacity
\* above 0 whose shrink request the allocator declined.
ShrinkDeclined ==
    /\ rlast'.op = "try_shrink_to_fit"
    /\ rlast'.additional > 0
    /\ Len(rlast'.calls) = 1
    /\ rlast'.calls[1].op = "shrink"
    /\ rlast'.calls[1].ret = None

C37_PushAlwaysGrows ==
    [][(rlast'.op = "try_reserve_for_push" /\ ~IS_ZST(elem)) =>
         /\ rlast'.grew
         /\ rlast'.result = "Ok" =>
               /\ Len(rlast'.calls) = 1
               /\ rlast'.calls[1].op \in {"allocate", "grow"}
               /\ raw_vec'.cap = Max3(2 * raw_vec.cap, rlast'.len + 1,
                                      MinCapOf(elem.size))
               /\ raw_vec'.cap > raw_vec.cap]_vars

\* C37 witness: try_reserve_for_push doubled a block that had room for
\* len + 1 elements already.
C37_Witness ==
    /\ rlast.op = "try_reserve_for_push"
    /\ rlast.result = "Ok"
    /\ ~IS_ZST(elem)
    /\ Len(rlast.calls) = 1
    /\ rlast.calls[1].op = "grow"
    /\ (rlast.len + 1) * elem.size <= Unwrap(rlast.calls[1].old).size
    /\ Unwrap(rlast.calls[1].new).size = 2 * Unwrap(rlast.calls[1].old).size

\* The bytes that a write has appended to the output `before`.
Appended(before, after) == SubSeq(after, Len(before) + 1, Len(after))

\* The write w of (tag, n) to the output `before` has appended the two
\* bytes that read_tag reads as (tag, n).
TagWritten(w, before, tag, n) ==
    /\ w.result = "Ok"
    /\ Len(w.output) = Len(before) + TAG_BYTES
    /\ SubSeq(w.output, 1, Len(before)) = before
    /\ read_tag(Appended(before, w.output), endian) = <<tag, n>>

\* Every tag and every size that the claim is about, on this target.
EveryTagRoundTrips ==
    \A tag \in 0..TYPE_MASK, n \in 0..(MAX_DATA - 1) :
        /\ u16_try_from(bit_or(shl(n, TYPE_BITS), tag)) # None
        /\ TagWritten(write_tag(<<>>, tag, n, TRUE, Build), <<>>, tag, n)

\* C38: for every tag value <= TYPE_MASK and every n < MAX_DATA, write_tag
\* appends exactly TAG_BYTES (2) bytes, its conversion of
\* (n << TYPE_BITS) | tag to 16 bits never fails, and read_tag on those two
\* bytes returns exactly (tag, n).  The functions are pure in the target's
\* byte order and the build, so all tags and sizes are tried once for each,
\* before the first write; the writes of the run are checked as they are
\* made.
C38_TagRoundTrip ==
    /\ ilast.op = "new" => EveryTagRoundTrips
    /\ (ilast.op = "write_tag" /\ ilast.tag <= TYPE_MASK /\ ilast.n < MAX_DATA) =>
          /\ ilast.result \in {"Ok", "AllocError"}
          /\ ilast.result = "AllocError" => output = ilast.before
          /\ ilast.result = "Ok" =>
                TagWritten(Written(output, "Ok"), ilast.before, ilast.tag, ilast.n)

\* C38 witness: on a big-endian target the largest tag with the largest
\* size was appended to an output that held bytes already.
C38_Witness ==
    /\ ilast.op = "write_tag"
    /\ ilast.tag = TYPE_MASK
    /\ ilast.n = MAX_DATA - 1
    /\ ilast.result = "Ok"
    /\ endian = "big"
    /\ ilast.before # <<>>
    /\ Appended(ilast.before, output) = <<U8_MAX, U8_MAX>>

TagOf(op) == IF op = "write_str" THEN STRING_TAG ELSE CRATE

\* The bytes a are a head tag, the bytes of s and a tail tag equal to the
\* head tag; both read as (tag, len(s)), and read_string on what follows
\* the head tag, with `more` after it, returns s, `more` and the tail tag.
Framed(a, tag, s, more) ==
    /\ Len(a) = TAG_BYTES + Len(s) + TAG_BYTES
    /\ SubSeq(a, TAG_BYTES + 1, TAG_BYTES + Len(s)) = s
    /\ SubSeq(a, 1, TAG_BYTES) = SubSeq(a, Len(a) - TAG_BYTES + 1, Len(a))
    /\ read_tag(SubSeq(a, 1, TAG_BYTES), endian) = <<tag, Len(s)>>
    /\ read_tag(SubSeq(a, Len(a) - TAG_BYTES + 1, Len(a)), endian) = <<tag, Len(s)>>
    /\ read_string(SubSeq(a, TAG_BYTES + 1, Len(a)) \o more,
                   read_tag(SubSeq(a, 1, TAG_BYTES), endian)[2])
           = <<s, more, SubSeq(a, 1, TAG_BYTES)>>

\* C40: a successful write_str(s) or write_crate(s) appends exactly
\* TAG_BYTES + len(s) + TAG_BYTES bytes: a head tag, the bytes of s, and a
\* tail tag identical to the head tag, both decoding via read_tag to
\* (STRING or CRATE respectively, len(s)); reading the head tag and then
\* read_string(rest, len(s)) returns s, the content following the tail tag,
\* and the tail tag bytes.
C40_StringRoundTrip ==
    (ilast.op \in {"write_str", "write_crate"} /\ ilast.result = "Ok") =>
        /\ SubSeq(output, 1, Len(ilast.before)) = ilast.before
        /\ Framed(Appended(ilast.before, output), TagOf(ilast.op), ilast.s, <<>>)
        /\ Framed(Appended(ilast.before, output), TagOf(ilast.op), ilast.s,
                  <<ID, U8_MAX>>)

\* C40 witness: write_crate has written the longest string that a tag can
\* hold.
C40_Witness ==
    /\ ilast.op = "write_crate"
    /\ ilast.result = "Ok"
    /\ Len(ilast.s) = MAX_DATA - 1
    /\ Len(output) = MAX_DATA - 1 + 2 * TAG_BYTES

====
